---- MODULE Spec2Model ----
\* Order-to-print dispatch engine of the thermal printer server:
\* the trigger handler (handlePaidOrder), the dedup ledger (printedOrders),
\* the slip dispatcher (printOrder), and the two event sources (Supabase
\* Realtime push callbacks, HTTP polling fallback) with the start-up failover.
EXTENDS Integers, Sequences, FiniteSets, TLC

\* ---------------------------------------------------------------- bounds
MaxOrders   == 2    \* order identifiers 1..MaxOrders
MaxTime     == 1    \* the clock runs 0..MaxTime
MaxHandlers == 2    \* handlePaidOrder executions that may be pending at once
MaxPolls    == 1    \* poll() executions that may be pending at once
MaxOverlap  == 2    \* the same, in the runs of pull mode alone
MaxCalls    == 3    \* handlePaidOrder invocations in one run
MaxItems    == 3    \* order_items rows of an order whose content is drawn freely
MaxKitchens == 2    \* kitchen numbers 1..MaxKitchens
MaxQuantity == 3    \* largest quantity of an item whose amounts are drawn freely
MaxText     == 3    \* longest text handed to a formatting helper on its own
MaxWidth    == 4    \* largest width handed to a formatting helper on its own
MaxOverflow == 2    \* characters of an item name beyond the name column
MaxBuilds   == 2    \* slips built from the same arguments in one run
MaxNameLen  == 2    \* characters of a configured printer name

\* ------------------------------------------------------ program constants
Capacity             == 200      \* "Trim set to last 200"
PrintOnPaymentStatus == "paid"   \* config.printOnPaymentStatus default

Null      == -1                  \* JS null (kitchen_number null: unassigned)
Missing   == -2                  \* JS undefined (a row without kitchen_number)
Undefined == "undefined"         \* a field the payload does not carry
Unset     == <<"unset">>         \* process.env of a variable that is not set

ServiceChargePercent == 2        \* allSubtotal * 0.02

Orders   == 1..MaxOrders
Statuses == {"pending", "paid"}

\* ------------------------------------------------------------ pure helpers
Range(s) == {s[i] : i \in 1..Len(s)}

\* Sequence with the elements of S in ascending order.
RECURSIVE SortAsc(_)
SortAsc(S) ==
  IF S = {} THEN <<>>
  ELSE LET m == CHOOSE x \in S : \A y \in S : x <= y
       IN  <<m>> \o SortAsc(S \ {m})

\* i.kitchen_number ?? null
KitchenOf(item) ==
  IF item.kitchen_number \in {Null, Missing} THEN Null ELSE item.kitchen_number

\* new Set(array), spread: the distinct values in order of first occurrence.
RECURSIVE Distinct(_)
Distinct(s) ==
  IF s = <<>> THEN <<>>
  ELSE LET r == Distinct(SubSeq(s, 1, Len(s) - 1))
       IN  IF s[Len(s)] \in Range(r) THEN r ELSE Append(r, s[Len(s)])

compareKitchens_Subtract(a, b) ==
  (IF a = Null THEN 0 ELSE a) - (IF b = Null THEN 0 ELSE b)

\* The comparator of getUniqueKitchens.
compareKitchens(a, b) ==
  IF a = Null /\ b = Null THEN 0
  ELSE IF a = Null THEN 1
  ELSE IF b = Null THEN -1
  ELSE a - b

\* Array.prototype.sort(compare), a stable sort: x goes behind the elements
\* that do not compare greater than it.
SortedInsert(s, x) ==
  LET n == Cardinality({i \in 1..Len(s) : compareKitchens(s[i], x) <= 0})
  IN  SubSeq(s, 1, n) \o <<x>> \o SubSeq(s, n + 1, Len(s))

RECURSIVE SortKitchens(_)
SortKitchens(s) ==
  IF s = <<>> THEN <<>>
  ELSE SortedInsert(SortKitchens(SubSeq(s, 1, Len(s) - 1)), s[Len(s)])

getUniqueKitchens_AlwaysUnassigned(items) ==
  SortKitchens(Distinct([i \in 1..Len(items) |-> KitchenOf(items[i])] \o <<Null>>))

\* printer.js getUniqueKitchens: the distinct kitchen_number values (null for
\* a missing one), sorted with numbered kitchens ascending and null last.
getUniqueKitchens(items) ==
  SortKitchens(Distinct([i \in 1..Len(items) |-> KitchenOf(items[i])]))

\* index.js shouldPrint(record)
shouldPrint(record) == record.payment_status = PrintOnPaymentStatus

\* An order_items row: its key, kitchen k, and the unit price (in cents) and
\* quantity of the j-th dish of the sample order (120.00 x 2, 15.00 x 3,
\* 20.00 x 2, ..).
ItemPrice(j)    == IF j % 3 = 1 THEN 12000 ELSE IF j % 3 = 2 THEN 1500 ELSE 2000
ItemQuantity(j) == IF j % 3 = 2 THEN 3 ELSE 2
Item(j, k) == [id |-> j, kitchen_number |-> k,
               item_price |-> ItemPrice(j), quantity |-> ItemQuantity(j)]

\* The order_items rows the store holds for an order (fixed per identifier):
\* order 1 has items of kitchens 2 and 1, orders 2, 5, .. one item without a
\* kitchen, orders 3, 6, .. no items at all.
OrderItems(o) ==
  IF o % 3 = 1 THEN <<Item(1, 2), Item(2, 1)>>
  ELSE IF o % 3 = 2 THEN <<Item(1, Null)>>
  ELSE <<>>

\* The columns of an order row that a slip uses and that never change.
OrderRow(o) == [id |-> o, payment_method |-> IF o % 2 = 1 THEN "cash" ELSE "online"]
NoOrder     == [id |-> 0, payment_method |-> ""]

\* ------------------------------------------------ destination resolution
\* Printer names and environment values are strings, modelled as sequences
\* of characters; Quote is the double quote.
Quote == "\""
Chars == {Quote, "P"}
DefaultName == <<"8", "0", "m", "m", " ", "S", "e", "r", "i", "e", "s", " ",
                 "P", "r", "i", "n", "t", "e", "r">>

\* str.replace(/^"|"$/g, ''): one double quote at the start and one at the
\* end (of what is left) are removed.
Unquote(str) ==
  LET t == IF str # <<>> /\ Head(str) = Quote THEN Tail(str) ELSE str
  IN  IF t # <<>> /\ t[Len(t)] = Quote THEN SubSeq(t, 1, Len(t) - 1) ELSE t

\* JS truthiness of process.env.X: set and not the empty string.
Truthy(v) == v # Unset /\ v # <<>>

\* a || b
Or(a, b) == IF Truthy(a) THEN a ELSE b

\* The kitchens an environment variable KITCHEN_{k}_PRINTER can be read for
\* (KITCHEN_null_PRINTER included).
KitchenKeys == (1..MaxKitchens) \cup {Null}

getDefaultPrinterName(e) ==
  Unquote(Or(Or(e.DEFAULT_PRINTER, e.PRINTER_NAME), DefaultName))

getKitchenPrinterName_NoNullTest(e, kitchenNumber) ==
  IF Truthy(e.KITCHEN_PRINTER[kitchenNumber])
  THEN Unquote(e.KITCHEN_PRINTER[kitchenNumber])
  ELSE getDefaultPrinterName(e)

getKitchenPrinterName(e, kitchenNumber) ==
  IF kitchenNumber # Null /\ Truthy(e.KITCHEN_PRINTER[kitchenNumber])
  THEN Unquote(e.KITCHEN_PRINTER[kitchenNumber])
  ELSE getDefaultPrinterName(e)

\* ------------------------------------------------------------ slip builder
\* The filter of printKitchenSlip: the rows of one kitchen.
kitchenItems_NullOnly(items, kitchenNumber) ==
  SelectSeq(items, LAMBDA i : i.kitchen_number = kitchenNumber)

kitchenItems_UnassignedOnAll(items, kitchenNumber) ==
  SelectSeq(items, LAMBDA i :
    \/ i.kitchen_number = Null \/ i.kitchen_number = Missing
    \/ i.kitchen_number = kitchenNumber)

kitchenItems(items, kitchenNumber) ==
  SelectSeq(items, LAMBDA i :
    IF kitchenNumber = Null THEN i.kitchen_number = Null \/ i.kitchen_number = Missing
    ELSE i.kitchen_number = kitchenNumber)

RECURSIVE Subtotal_IgnoreQuantity(_)
Subtotal_IgnoreQuantity(items) ==
  IF items = <<>> THEN 0
  ELSE Subtotal_IgnoreQuantity(SubSeq(items, 1, Len(items) - 1)) + items[Len(items)].item_price

\* items.reduce((sum, i) => sum + i.item_price * i.quantity, 0), in cents.
RECURSIVE Subtotal(_)
Subtotal(items) ==
  IF items = <<>> THEN 0
  ELSE Subtotal(SubSeq(items, 1, Len(items) - 1))
         + items[Len(items)].item_price * items[Len(items)].quantity

\* x.toFixed(2) of an amount given in hundredths of a cent: the amount in
\* cents, a half rounded up.
toFixed2(x) == (x + 50) \div 100

\* The totals block of a slip (printed amounts, in cents).
Totals_KitchenOnly(order, items, rows) ==
  LET allSubtotal   == Subtotal(rows)
      serviceCharge == allSubtotal * ServiceChargePercent
      grandTotal    == allSubtotal * 100 + serviceCharge
  IN  [allSubtotal   |-> toFixed2(allSubtotal * 100),
       serviceCharge |-> toFixed2(serviceCharge),
       grandTotal    |-> toFixed2(grandTotal),
       payLabel      |-> IF order.payment_method = "cash" THEN "Cash" ELSE "Online"]

Totals(order, items, rows) ==
  LET allSubtotal   == Subtotal(items)
      serviceCharge == allSubtotal * ServiceChargePercent
      grandTotal    == allSubtotal * 100 + serviceCharge
  IN  [allSubtotal   |-> toFixed2(allSubtotal * 100),
       serviceCharge |-> toFixed2(serviceCharge),
       grandTotal    |-> toFixed2(grandTotal),
       payLabel      |-> IF order.payment_method = "cash" THEN "Cash" ELSE "Online"]

printKitchenSlip_AllRows(order, items, kitchenNumber, kitchenIndex, totalKitchens, openDrawer) ==
  [skipped         |-> kitchenItems(items, kitchenNumber) = <<>>,
   kitchenNumber   |-> kitchenNumber,
   kitchenIndex    |-> kitchenIndex,
   totalKitchens   |-> totalKitchens,
   rows            |-> items,
   kitchenSubtotal |-> toFixed2(Subtotal(items) * 100),
   totals          |-> Totals(order, items, items),
   cashDrawer      |-> openDrawer]

\* printKitchenSlip up to its await: the document it builds, or no document
\* (skipped) when the kitchen has no rows.
printKitchenSlip(order, items, kitchenNumber, kitchenIndex, totalKitchens, openDrawer) ==
  LET rows == kitchenItems(items, kitchenNumber)
  IN  [skipped         |-> rows = <<>>,
       kitchenNumber   |-> kitchenNumber,
       kitchenIndex    |-> kitchenIndex,
       totalKitchens   |-> totalKitchens,
       rows            |-> rows,
       kitchenSubtotal |-> toFixed2(Subtotal(rows) * 100),
       totals          |-> Totals(order, items, rows),
       cashDrawer      |-> openDrawer]

openDrawer_EverySlip(e, order, kitchenIndex) ==
  e.OPEN_CASH_DRAWER = "true" /\ order.payment_method = "cash"

\* printOrder: the drawer pulse goes on the first slip, if configured and the
\* payment is cash.
openDrawer(e, order, kitchenIndex) ==
  /\ e.OPEN_CASH_DRAWER = "true"
  /\ order.payment_method = "cash"
  /\ kitchenIndex = 1

allSuccessAfter_LastSlip(allSuccess, success) == success

\* printOrder: allSuccess after a slip has returned success.
allSuccessAfter(allSuccess, success) == IF success THEN allSuccess ELSE FALSE

\* printOrder's return value.
printOrderResult_FailOnEmpty(allSuccess, kitchens) ==
  [success |-> allSuccess /\ kitchens # <<>>, kitchens |-> kitchens]

printOrderResult(allSuccess, kitchens) == [success |-> allSuccess, kitchens |-> kitchens]

\* Set.add followed by the trim of handlePaidOrder, on the insertion-ordered
\* Set represented as a duplicate-free sequence.
SetAdd(ledger, id) == IF id \in Range(ledger) THEN ledger ELSE Append(ledger, id)
Trim_EvictNewest(ledger) ==
  IF Len(ledger) > Capacity THEN SubSeq(ledger, 1, Len(ledger) - 1) ELSE ledger

Trim(ledger) == IF Len(ledger) > Capacity THEN Tail(ledger) ELSE ledger

RecordResult_AlwaysAdd(ledger, id, success) == Trim(SetAdd(ledger, id))

\* handlePaidOrder after printOrder has returned: the identifier enters the
\* ledger on success only, then the ledger is trimmed.
RecordResult(ledger, id, success) ==
  Trim(IF success THEN SetAdd(ledger, id) ELSE ledger)

\* --------------------------------------------------------- text of a slip
\* A string is the sequence of its UTF-16 character codes; bytes are 0..255.
Space == 32
LF    == 10
\* ' '.repeat(n), char.repeat(n)
repeat(c, n) == [i \in 1..n |-> c]
\* str.substring(from) and str.substring(0, to)
substringFrom(str, from) == SubSeq(str, from + 1, Len(str))
substringTo(str, to) == SubSeq(str, 1, IF to < Len(str) THEN to ELSE Len(str))
\* str.padStart(width, ' ') and str.padEnd(width, ' ')
padStart(str, width) ==
  IF Len(str) >= width THEN str ELSE repeat(Space, width - Len(str)) \o str
padEnd(str, width) ==
  IF Len(str) >= width THEN str ELSE str \o repeat(Space, width - Len(str))
\* A text that is missing (undefined or null): no string has this value.
NoText == <<Missing>>
\* String(text || ''): a missing or empty text is the empty string.
TextOf(text) == IF text = NoText THEN <<>> ELSE text

col_PadOnly(text, width, align) ==
  LET str == TextOf(text)
  IN  IF align = "right" THEN padStart(str, width)
      ELSE IF align = "center"
      THEN LET pad == IF width > Len(str) THEN (width - Len(str)) \div 2 ELSE 0
           IN  repeat(Space, pad) \o str
                 \o repeat(Space, IF width > pad + Len(str) THEN width - pad - Len(str) ELSE 0)
      ELSE padEnd(str, width)

\* col(text, width, align)
col(text, width, align) ==
  LET str == substringTo(TextOf(text), width)
  IN  IF align = "right" THEN padStart(str, width)
      ELSE IF align = "center"
      THEN LET pad == (width - Len(str)) \div 2
           IN  repeat(Space, pad) \o str \o repeat(Space, width - pad - Len(str))
      ELSE padEnd(str, width)

Max(a, b) == IF a >= b THEN a ELSE b

leftRightLine_NoMinimum(left, right, width) ==
  left \o repeat(Space, Max(0, width - Len(left) - Len(right))) \o right

\* The line EscPos.leftRight(left, right, width) prints.
leftRightLine(left, right, width) ==
  LET spaces == Max(1, width - Len(left) - Len(right))
  IN  left \o repeat(Space, spaces) \o right

EscPos_text_NoMask(bytes, str) == bytes \o str

\* EscPos._text(str), on the bytes collected so far
EscPos_text(bytes, str) == bytes \o [i \in 1..Len(str) |-> str[i] % 256]

\* EscPos.println(str)
println(bytes, str) == EscPos_text(bytes, str) \o <<LF>>

\* String(n) for a natural number n
RECURSIVE StringOfNat(_)
StringOfNat(n) ==
  IF n < 10 THEN <<48 + n>> ELSE Append(StringOfNat(n \div 10), 48 + (n % 10))
\* amount.toFixed(2) as a string, for an amount of whole cents
toFixedString(cents) ==
  StringOfNat(cents \div 100) \o <<46, 48 + ((cents % 100) \div 10), 48 + (cents % 10)>>

\* The header row of the items table: 'Item Name', 'Qty', 'Price', 'Total'.
headerRow ==
  col(<<73, 116, 101, 109, 32, 78, 97, 109, 101>>, 21, "left") \o col(<<81, 116, 121>>, 7, "right")
    \o col(<<80, 114, 105, 99, 101>>, 10, "right") \o col(<<84, 111, 116, 97, 108>>, 10, "right")

\* item.item_name || 'Item'
nameOrItem(item) ==
  IF TextOf(item.item_name) = <<>> THEN <<73, 116, 101, 109>> ELSE item.item_name

\* The row of an item in the items table.
itemRow(item) ==
  LET extPrice == item.item_price * item.quantity
  IN  col(nameOrItem(item), 21, "left") \o col(StringOfNat(item.quantity), 7, "right")
        \o col(toFixedString(item.item_price), 10, "right")
        \o col(toFixedString(extPrice), 10, "right")

itemLines_NoOverflow(item) == <<itemRow(item)>>

\* The lines printKitchenSlip prints for an item: its row and, for a name
\* longer than the name column, the continuation line.
itemLines(item) ==
  <<itemRow(item)>>
    \o (IF Len(TextOf(item.item_name)) > 21
        THEN <<<<Space, Space>> \o substringFrom(item.item_name, 21)>>
        ELSE <<>>)

\* ------------------------------------------------------------------ state
VARIABLES
  now,              \* the clock (new Date()), 0..MaxTime
  db,               \* the orders table: payment_status and updated_at per order
  autoPrintEnabled, \* config.autoPrintEnabled
  printedOrders,    \* the dedup ledger, a Set in insertion order
  hs,               \* the pending handlePaidOrder executions
  polls,            \* the pending poll() executions
  lastCheck,        \* startPollingListener's lastCheck
  intervalOn,       \* setInterval(poll, 3000) has been armed
  mainPc,           \* main(): "race" | "realtime" | "polling"
  joined,           \* the channel is subscribed and delivers postgres_changes
  \* history
  pollStart,        \* the clock when startPollingListener ran (Null before)
  firstSignal,      \* what the subscription attempt reported first: "ready"
                    \* (SUBSCRIBED) or "failed" (fatal status, 10 s timer)
  calls,            \* handlePaidOrder invocations so far
  called,           \* the identifier of the latest handlePaidOrder invocation
  succeeded,        \* identifiers whose printOrder returned success
  failed,           \* identifiers whose latest printOrder returned failure
  \* configuration and store content, fixed during a run
  store,            \* per order: the fixed columns of its row, its order_items
  env,              \* process.env: OPEN_CASH_DRAWER and the printer names
  tracing,          \* whether slips and history are recorded in this run
  \* history, recorded when tracing
  slips,            \* per execution: the slips printOrder has attempted so far
  history,          \* the finished handlePaidOrder executions that fetched
  resolved,         \* the latest getKitchenPrinterName call: <<key, name>>
  given,            \* the arguments a helper of printer.js is called with
  applied           \* what the helper returned for them (<<>> before the call)

engineVars == <<now, db, autoPrintEnabled, printedOrders, hs, polls, lastCheck,
                intervalOn, mainPc, joined, pollStart,
                firstSignal, calls, called, succeeded, failed>>
configVars == <<store, env, tracing, resolved, given, applied>>
traceVars  == <<slips, history>>

vars == <<engineVars, configVars, traceVars>>

Handlers == 1..MaxHandlers
\* The poll() executions of a run: polls has one slot for each.
Pollers  == DOMAIN polls

IdleHandler == [pc |-> "idle", id |-> 0, order |-> NoOrder, items |-> <<>>,
                kitchens |-> <<>>, i |-> 0, allSuccess |-> TRUE]
\* The environment of the sample configuration: the drawer enabled, one
\* printer for all kitchens; TZ: the minutes local time is ahead of UTC.
DefaultEnv ==
  [OPEN_CASH_DRAWER |-> "true",
   DEFAULT_PRINTER  |-> Unset,
   PRINTER_NAME     |-> <<"P">>,
   KITCHEN_PRINTER  |-> [k \in KitchenKeys |-> Unset],
   TZ               |-> 0]

IdlePoll    == [pc |-> "idle", since |-> 0, orders |-> <<>>, k |-> 0, waiting |-> 0]

Init ==
  /\ now = 0
  /\ db = [o \in Orders |-> [payment_status |-> "absent", updated_at |-> 0]]
  /\ autoPrintEnabled \in BOOLEAN
  /\ printedOrders = <<>>
  /\ hs = [h \in Handlers |-> IdleHandler]
  /\ polls = [p \in 1..MaxPolls |-> IdlePoll]
  /\ lastCheck = Null
  /\ intervalOn = FALSE
  /\ mainPc = "race"
  /\ joined = FALSE
  /\ pollStart = Null
  /\ firstSignal = "none"
  /\ calls = 0
  /\ called = 0
  /\ succeeded = {}
  /\ failed = {}
  /\ store = [o \in Orders |-> [order |-> OrderRow(o), items |-> OrderItems(o)]]
  /\ env = DefaultEnv
  /\ tracing = FALSE
  /\ slips = [h \in Handlers |-> <<>>]
  /\ history = <<>>
  /\ resolved = <<>>
  /\ given = <<>>
  /\ applied = <<>>

\* ------------------------------------------------------- handlePaidOrder
FreeSlots(h0) == {h \in Handlers : h0[h].pc = "idle"}
Lowest(S)     == CHOOSE x \in S : \A y \in S : x <= y
Active(h)     == hs[h].pc # "idle"

\* The row an event or a poll hands to handlePaidOrder.
Row(o, d) == [id |-> o, payment_status |-> d[o].payment_status,
              updated_at |-> d[o].updated_at]

handlePaidOrder_NoLedgerCheck(h0, ledger, record) ==
  IF FreeSlots(h0) = {} THEN h0
  ELSE [h0 EXCEPT ![Lowest(FreeSlots(h0))] =
          [pc |-> "fetch", id |-> record.id, order |-> NoOrder, items |-> <<>>,
           kitchens |-> <<>>, i |-> 0, allSuccess |-> TRUE]]

handlePaidOrder_NeverForget(h0, ledger, record) ==
  IF record.id \in Range(ledger) \cup succeeded THEN h0
  ELSE [h0 EXCEPT ![Lowest(FreeSlots(h0))] =
          [pc |-> "fetch", id |-> record.id, order |-> NoOrder, items |-> <<>>,
           kitchens |-> <<>>, i |-> 0, allSuccess |-> TRUE]]

\* handlePaidOrder(record) up to its first await: the ledger check, then the
\* call of fetchOrderDetails.
handlePaidOrder(h0, ledger, record) ==
  IF record.id \in Range(ledger) THEN h0
  ELSE [h0 EXCEPT ![Lowest(FreeSlots(h0))] =
          [pc |-> "fetch", id |-> record.id, order |-> NoOrder, items |-> <<>>,
           kitchens |-> <<>>, i |-> 0, allSuccess |-> TRUE]]

\* One invocation of handlePaidOrder from an event source.
Call(h0, ledger, record) ==
  /\ calls < MaxCalls
  /\ record.id \in Range(ledger) \/ FreeSlots(h0) # {}
  /\ hs' = handlePaidOrder(h0, ledger, record)
  /\ calls' = calls + 1
  /\ called' = record.id

NoCall(h0) ==
  /\ hs' = h0
  /\ UNCHANGED <<calls, called>>

\* ------------------------------------------------------------------ poll()
\* First index from k on whose order is not in the ledger (Len+1 if none):
\* the for loop of poll() with its printedOrders.has test.
RECURSIVE NextUnprinted(_, _, _)
NextUnprinted(orders, k, ledger) ==
  IF k > Len(orders) THEN k
  ELSE IF orders[k].id \notin Range(ledger) THEN k
  ELSE NextUnprinted(orders, k + 1, ledger)

\* poll() running on from order k of its result: it hands the next order not
\* in the ledger to handlePaidOrder and awaits it, or it ends the loop and
\* sets lastCheck.
ContinuePoll(p, k, orders, h0, ledger) ==
  LET j == NextUnprinted(orders, k, ledger)
  IN  IF j <= Len(orders)
      THEN /\ Call(h0, ledger, orders[j])
           /\ polls' = [polls EXCEPT ![p] =
                  [pc |-> "loop", since |-> polls[p].since, orders |-> orders,
                   k |-> j, waiting |-> Lowest(FreeSlots(h0))]]
           /\ UNCHANGED <<lastCheck, intervalOn>>
      ELSE /\ NoCall(h0)
           /\ polls' = [polls EXCEPT ![p] = IdlePoll]
           /\ lastCheck' = now
           /\ intervalOn' = TRUE

\* The poll that awaits handlePaidOrder execution h, if any.
Awaiting(h) == {p \in Pollers : polls[p].pc = "loop" /\ polls[p].waiting = h}

\* handlePaidOrder execution h returns, the ledger being ledger1; a poll that
\* awaits it runs on.
Return(h, ledger1) ==
  LET h0 == [hs EXCEPT ![h] = IdleHandler]
  IN  /\ printedOrders' = ledger1
      /\ IF Awaiting(h) # {}
         THEN LET p == CHOOSE q \in Awaiting(h) : TRUE
              IN  ContinuePoll(p, polls[p].k + 1, polls[p].orders, h0, ledger1)
         ELSE /\ NoCall(h0)
              /\ UNCHANGED <<polls, lastCheck, intervalOn>>

\* History: execution h is over; fetched: the queries of its fetch succeeded,
\* printed: it called printOrder, which returned result after the attempts.
NoResult == [success |-> FALSE, kitchens |-> <<>>]
Finished(h, fetched, printed, result, attempts) ==
  IF tracing
  THEN /\ history' = Append(history,
                       [execution |-> h, id |-> hs[h].id,
                        fetched |-> fetched, printed |-> printed,
                        success |-> result.success, kitchens |-> result.kitchens,
                        slips |-> attempts])
       /\ slips' = [slips EXCEPT ![h] = <<>>]
  ELSE UNCHANGED <<slips, history>>

\* printOrder has returned result to handlePaidOrder execution h.
PrintOrderReturns(h, fetched, result, attempts) ==
  /\ Return(h, RecordResult(printedOrders, hs[h].id, result.success))
  /\ succeeded' = IF result.success THEN succeeded \cup {hs[h].id} ELSE succeeded
  /\ failed' = IF result.success THEN failed \ {hs[h].id} ELSE failed \cup {hs[h].id}
  /\ Finished(h, fetched, TRUE, result, attempts)

fetchOrderDetails_EmptyOnError(st, orderId, ok) ==
  [found |-> TRUE, order |-> st[orderId].order,
   items |-> IF ok THEN st[orderId].items ELSE <<>>]

\* fetchOrderDetails(orderId): the order row and its items, or null (found
\* FALSE) when a query fails or the order is not there (ok FALSE).
fetchOrderDetails(st, orderId, ok) ==
  IF ok THEN [found |-> TRUE, order |-> st[orderId].order, items |-> st[orderId].items]
  ELSE [found |-> FALSE, order |-> NoOrder, items |-> <<>>]

\* The kitchens whose slip a finished dispatch of this order has sent.
SentBefore(order) ==
  UNION {{history[n].slips[j].slip.kitchenNumber :
            j \in {k \in 1..Len(history[n].slips) : history[n].slips[k].ok}} :
         n \in {m \in 1..Len(history) : history[m].id = order.id}}

printOrderStart_SkipSent(order, items) ==
  [kitchens   |-> SelectSeq(getUniqueKitchens(items),
                            LAMBDA k : k \notin SentBefore(order)),
   i          |-> 1,
   allSuccess |-> TRUE]

\* printOrder up to its loop: the kitchens, the loop at its first slip.
printOrderStart(order, items) ==
  [kitchens   |-> getUniqueKitchens(items),
   i          |-> 1,
   allSuccess |-> TRUE]

FetchDone_IgnoreFlag(h, ok) ==
  /\ hs[h].pc = "fetch"
  /\ LET orderData == fetchOrderDetails(store, hs[h].id, ok)
         loop      == printOrderStart(orderData.order, orderData.items)
     IN  IF ~orderData.found
         THEN /\ Return(h, printedOrders)
              /\ Finished(h, ok, FALSE, NoResult, <<>>)
              /\ UNCHANGED <<succeeded, failed>>
         ELSE IF Len(loop.kitchens) = 0
         THEN PrintOrderReturns(h, ok, printOrderResult(loop.allSuccess, loop.kitchens), <<>>)
         ELSE /\ hs' = [hs EXCEPT ![h] =
                          [pc |-> "send", id |-> hs[h].id,
                           order |-> orderData.order, items |-> orderData.items,
                           kitchens |-> loop.kitchens, i |-> loop.i,
                           allSuccess |-> loop.allSuccess]]
              /\ UNCHANGED <<printedOrders, polls, lastCheck, intervalOn, calls, called,
                             succeeded, failed, slips, history>>
  /\ UNCHANGED <<now, db, autoPrintEnabled, mainPc, joined,
                 pollStart, firstSignal>>
  /\ UNCHANGED configVars

\* fetchOrderDetails has returned (ok: order and items, otherwise null);
\* handlePaidOrder runs on to the first slip of printOrder or to its end.
FetchDone(h, ok) ==
  /\ hs[h].pc = "fetch"
  /\ LET orderData == fetchOrderDetails(store, hs[h].id, ok)
         loop      == printOrderStart(orderData.order, orderData.items)
     IN  IF ~orderData.found \/ ~autoPrintEnabled
         THEN /\ Return(h, printedOrders)
              /\ Finished(h, ok, FALSE, NoResult, <<>>)
              /\ UNCHANGED <<succeeded, failed>>
         ELSE IF Len(loop.kitchens) = 0
         THEN PrintOrderReturns(h, ok, printOrderResult(loop.allSuccess, loop.kitchens), <<>>)
         ELSE /\ hs' = [hs EXCEPT ![h] =
                          [pc |-> "send", id |-> hs[h].id,
                           order |-> orderData.order, items |-> orderData.items,
                           kitchens |-> loop.kitchens, i |-> loop.i,
                           allSuccess |-> loop.allSuccess]]
              /\ UNCHANGED <<printedOrders, polls, lastCheck, intervalOn, calls, called,
                             succeeded, failed, slips, history>>
  /\ UNCHANGED <<now, db, autoPrintEnabled, mainPc, joined,
                 pollStart, firstSignal>>
  /\ UNCHANGED configVars

\* The slip execution h is sending: printKitchenSlip with the arguments
\* printOrder passes for kitchens[i].
Slip(h) ==
  printKitchenSlip(hs[h].order, hs[h].items, hs[h].kitchens[hs[h].i], hs[h].i,
                   Len(hs[h].kitchens), openDrawer(env, hs[h].order, hs[h].i))

\* History: the slip of execution h, the printer it goes to and what
\* printKitchenSlip returned.
Attempt(h, ok) ==
  [slip    |-> Slip(h),
   printer |-> getKitchenPrinterName(env, hs[h].kitchens[hs[h].i]),
   ok      |-> ok]

SendDone_StopOnFailure(h, ok) ==
  /\ hs[h].pc = "send"
  /\ Slip(h).skipped => ok
  /\ LET allSuccess == allSuccessAfter(hs[h].allSuccess, ok)
         attempts   == slips[h] \o <<Attempt(h, ok)>>
     IN  IF hs[h].i < Len(hs[h].kitchens) /\ ok
         THEN /\ hs' = [hs EXCEPT ![h].pc = "delay", ![h].allSuccess = allSuccess]
              /\ slips' = IF tracing THEN [slips EXCEPT ![h] = attempts] ELSE slips
              /\ UNCHANGED <<printedOrders, polls, lastCheck, intervalOn, calls, called,
                             succeeded, failed, history>>
         ELSE PrintOrderReturns(h, TRUE, printOrderResult(allSuccess, hs[h].kitchens), attempts)
  /\ UNCHANGED <<now, db, autoPrintEnabled, mainPc, joined,
                 pollStart, firstSignal>>
  /\ UNCHANGED configVars

\* printKitchenSlip i has returned (ok: the printer took the job, or there
\* was nothing to send; otherwise an error was caught).
SendDone(h, ok) ==
  /\ hs[h].pc = "send"
  /\ Slip(h).skipped => ok
  /\ LET allSuccess == allSuccessAfter(hs[h].allSuccess, ok)
         attempts   == slips[h] \o <<Attempt(h, ok)>>
     IN  IF hs[h].i < Len(hs[h].kitchens)
         THEN /\ hs' = [hs EXCEPT ![h].pc = "delay", ![h].allSuccess = allSuccess]
              /\ slips' = IF tracing THEN [slips EXCEPT ![h] = attempts] ELSE slips
              /\ UNCHANGED <<printedOrders, polls, lastCheck, intervalOn, calls, called,
                             succeeded, failed, history>>
         ELSE PrintOrderReturns(h, TRUE, printOrderResult(allSuccess, hs[h].kitchens), attempts)
  /\ UNCHANGED <<now, db, autoPrintEnabled, mainPc, joined,
                 pollStart, firstSignal>>
  /\ UNCHANGED configVars

\* The 500 ms gap between two slips is over; the next slip is built and sent.
DelayDone(h) ==
  /\ hs[h].pc = "delay"
  /\ hs' = [hs EXCEPT ![h].pc = "send", ![h].i = hs[h].i + 1]
  /\ UNCHANGED <<now, db, autoPrintEnabled, printedOrders, polls, lastCheck,
                 intervalOn, mainPc, joined, pollStart,
                 firstSignal, calls, called, succeeded, failed>>
  /\ UNCHANGED <<configVars, traceVars>>

\* ------------------------------------------------- the store and push mode
\* The INSERT callback of startRealtimeListener.
InsertQualifies(payload) == shouldPrint(payload.new)

UpdateQualifies_RequiresOld(payload) ==
  LET wasAlreadyPaid == payload.old.payment_status \in {PrintOnPaymentStatus, Undefined}
      isNowPaid      == shouldPrint(payload.new)
  IN  ~wasAlreadyPaid /\ isNowPaid

\* The UPDATE callback of startRealtimeListener.
UpdateQualifies(payload) ==
  LET wasAlreadyPaid == payload.old.payment_status = PrintOnPaymentStatus
      isNowPaid      == shouldPrint(payload.new)
  IN  ~wasAlreadyPaid /\ isNowPaid

\* A postgres_changes event reaches its callback.
Deliver(payload, qualifies) ==
  IF qualifies THEN Call(hs, printedOrders, payload.new) ELSE NoCall(hs)

\* An order row is created with payment status st.
InsertOrder(o, st) ==
  /\ db[o].payment_status = "absent"
  /\ db' = [db EXCEPT ![o] = [payment_status |-> st, updated_at |-> now]]
  /\ LET payload == [old |-> [payment_status |-> Undefined], new |-> Row(o, db')]
     IN  IF joined THEN Deliver(payload, InsertQualifies(payload)) ELSE NoCall(hs)
  /\ UNCHANGED <<now, autoPrintEnabled, printedOrders, polls, lastCheck, intervalOn,
                 mainPc, joined, pollStart, firstSignal, succeeded,
                 failed>>
  /\ UNCHANGED <<configVars, traceVars>>

\* An order row is updated, its payment status becoming st (possibly the same
\* as before; a paid order stays paid); oldFull: the event's old record carries all columns (replica
\* identity full), otherwise the key only.
UpdateOrder(o, st, oldFull) ==
  /\ db[o].payment_status # "absent"
  /\ db[o].payment_status = PrintOnPaymentStatus => st = PrintOnPaymentStatus
  /\ db' = [db EXCEPT ![o] = [payment_status |-> st, updated_at |-> now]]
  /\ LET payload == [old |-> [payment_status |->
                                 IF oldFull THEN db[o].payment_status ELSE Undefined],
                     new |-> Row(o, db')]
     IN  IF joined THEN Deliver(payload, UpdateQualifies(payload)) ELSE NoCall(hs)
  /\ UNCHANGED <<now, autoPrintEnabled, printedOrders, polls, lastCheck, intervalOn,
                 mainPc, joined, pollStart, firstSignal, succeeded,
                 failed>>
  /\ UNCHANGED <<configVars, traceVars>>

Tick ==
  /\ now < MaxTime
  /\ now' = now + 1
  /\ UNCHANGED <<db, autoPrintEnabled, printedOrders, hs, polls, lastCheck,
                 intervalOn, mainPc, joined, pollStart,
                 firstSignal, calls, called, succeeded, failed>>
  /\ UNCHANGED <<configVars, traceVars>>

\* ------------------------------------------------------------ pull mode
QueryResults_NoSince(d, since) ==
  LET ids == {o \in Orders : d[o].payment_status = PrintOnPaymentStatus}
  IN  {s \in [1..Cardinality(ids) -> {Row(o, d) : o \in ids}] :
         \A i, j \in DOMAIN s : i < j => /\ s[i].id # s[j].id
                                         /\ s[i].updated_at <= s[j].updated_at}

\* The result of the poll query: the rows with updated_at >= since and the
\* trigger status, in ascending updated_at order (ties in any order).
QueryResults(d, since) ==
  LET ids == {o \in Orders : /\ d[o].payment_status = PrintOnPaymentStatus
                             /\ d[o].updated_at >= since}
  IN  {s \in [1..Cardinality(ids) -> {Row(o, d) : o \in ids}] :
         \A i, j \in DOMAIN s : i < j => /\ s[i].id # s[j].id
                                         /\ s[i].updated_at <= s[j].updated_at}

FreePolls == {p \in Pollers : polls[p].pc = "idle"}

\* poll() up to its first await: the query is issued with the current lastCheck.
StartPoll(p, since) ==
  [polls EXCEPT ![p] = [pc |-> "query", since |-> since, orders |-> <<>>,
                        k |-> 0, waiting |-> 0]]

\* main()'s catch: startPollingListener sets lastCheck to now and runs the
\* first poll.
StartPollingListener ==
  /\ mainPc' = "polling"
  /\ lastCheck' = now
  /\ pollStart' = now
  /\ polls' = StartPoll(1, now)

\* setInterval(poll, 3000) fires.
PollTick ==
  /\ intervalOn
  /\ FreePolls # {}
  /\ polls' = StartPoll(Lowest(FreePolls), lastCheck)
  /\ UNCHANGED <<now, db, autoPrintEnabled, printedOrders, hs, lastCheck,
                 intervalOn, mainPc, joined, pollStart,
                 firstSignal, calls, called, succeeded, failed>>
  /\ UNCHANGED <<configVars, traceVars>>

PollQueryDone_AdvanceOnError(p, ok) ==
  /\ polls[p].pc = "query"
  /\ IF ok
     THEN \E orders \in QueryResults(db, polls[p].since) :
            ContinuePoll(p, 1, orders, hs, printedOrders)
     ELSE /\ polls' = [polls EXCEPT ![p] = IdlePoll]
          /\ intervalOn' = TRUE
          /\ NoCall(hs)
          /\ lastCheck' = now
  /\ UNCHANGED <<now, db, autoPrintEnabled, printedOrders, mainPc, joined,
                 pollStart, firstSignal, succeeded, failed>>
  /\ UNCHANGED <<configVars, traceVars>>

\* The poll query has returned (ok: rows, otherwise an error).
PollQueryDone(p, ok) ==
  /\ polls[p].pc = "query"
  /\ IF ok
     THEN \E orders \in QueryResults(db, polls[p].since) :
            ContinuePoll(p, 1, orders, hs, printedOrders)
     ELSE /\ polls' = [polls EXCEPT ![p] = IdlePoll]
          /\ intervalOn' = TRUE
          /\ NoCall(hs)
          /\ UNCHANGED lastCheck
  /\ UNCHANGED <<now, db, autoPrintEnabled, printedOrders, mainPc, joined,
                 pollStart, firstSignal, succeeded, failed>>
  /\ UNCHANGED <<configVars, traceVars>>

\* ------------------------------------------------------- mode selection
FatalStatuses_ErrorOnly == {"CHANNEL_ERROR"}

FatalStatuses == {"CHANNEL_ERROR", "TIMED_OUT"}

Status_FailoverOnLoss(s) ==
  /\ joined' = (s = "SUBSCRIBED")
  /\ firstSignal' = IF firstSignal # "none" \/ s = "CLOSED" THEN firstSignal
                    ELSE IF s = "SUBSCRIBED" THEN "ready" ELSE "failed"
  /\ IF mainPc = "race" /\ s = "SUBSCRIBED"
     THEN /\ mainPc' = "realtime"
          /\ UNCHANGED <<lastCheck, pollStart, polls>>
     ELSE IF mainPc # "polling" /\ s \in {"CHANNEL_ERROR", "TIMED_OUT"}
     THEN StartPollingListener
     ELSE UNCHANGED <<mainPc, lastCheck, pollStart, polls>>
  /\ UNCHANGED <<now, db, autoPrintEnabled, printedOrders, hs, intervalOn,
                 calls, called, succeeded, failed>>
  /\ UNCHANGED <<configVars, traceVars>>

\* The subscribe callback is called with a status: SUBSCRIBED resolves the
\* promise of startRealtimeListener, CHANNEL_ERROR and TIMED_OUT reject it,
\* CLOSED is reported only. main() reacts while it awaits Promise.race; a
\* promise that is settled stays as it is.
Status(s) ==
  /\ joined' = (s = "SUBSCRIBED")
  /\ firstSignal' = IF firstSignal # "none" \/ s = "CLOSED" THEN firstSignal
                    ELSE IF s = "SUBSCRIBED" THEN "ready" ELSE "failed"
  /\ IF mainPc = "race" /\ s = "SUBSCRIBED"
     THEN /\ mainPc' = "realtime"
          /\ UNCHANGED <<lastCheck, pollStart, polls>>
     ELSE IF mainPc = "race" /\ s \in FatalStatuses
     THEN StartPollingListener
     ELSE UNCHANGED <<mainPc, lastCheck, pollStart, polls>>
  /\ UNCHANGED <<now, db, autoPrintEnabled, printedOrders, hs, intervalOn,
                 calls, called, succeeded, failed>>
  /\ UNCHANGED <<configVars, traceVars>>

\* The 10 s timer of main() fires: Promise.race rejects if main() still
\* awaits it, otherwise the rejection has no effect.
Timeout ==
  /\ firstSignal' = IF firstSignal = "none" THEN "failed" ELSE firstSignal
  /\ IF mainPc = "race"
     THEN StartPollingListener
     ELSE UNCHANGED <<mainPc, lastCheck, pollStart, polls>>
  /\ UNCHANGED <<now, db, autoPrintEnabled, printedOrders, hs, intervalOn,
                 joined, calls, called, succeeded, failed>>
  /\ UNCHANGED <<configVars, traceVars>>

\* ------------------------------------------------------------ specification
StatusValues == {"SUBSCRIBED", "CHANNEL_ERROR", "TIMED_OUT", "CLOSED"}

FetchStep    == \E h \in Handlers, ok \in BOOLEAN : FetchDone(h, ok)
SendStep     == \E h \in Handlers, ok \in BOOLEAN : SendDone(h, ok)
DelayStep    == \E h \in Handlers : DelayDone(h)
InsertStep   == \E o \in Orders, st \in Statuses : InsertOrder(o, st)
UpdateStep   == \E o \in Orders, st \in Statuses, oldFull \in BOOLEAN : UpdateOrder(o, st, oldFull)
QueryStep    == \E p \in Pollers, ok \in BOOLEAN : PollQueryDone(p, ok)
StatusStep   == \E s \in StatusValues : Status(s)

Next ==
  \/ FetchStep
  \/ SendStep
  \/ DelayStep
  \/ InsertStep
  \/ UpdateStep
  \/ Tick
  \/ PollTick
  \/ QueryStep
  \/ StatusStep
  \/ Timeout

Spec == Init /\ [][Next]_vars

\* The ledger shortly before it is full: Capacity - 1 or Capacity earlier
\* orders (identifiers above MaxOrders) have been dispatched in push mode, and
\* the orders 1..MaxOrders are still to come.
EarlierOrders(n) == [i \in 1..n |-> MaxOrders + i]

InitEvict ==
  /\ now = 0
  /\ db = [o \in Orders |-> [payment_status |-> "absent", updated_at |-> 0]]
  /\ autoPrintEnabled = TRUE
  /\ \E n \in {Capacity - 1, Capacity} :
       /\ printedOrders = EarlierOrders(n)
       /\ succeeded = Range(EarlierOrders(n))
  /\ hs = [h \in Handlers |-> IdleHandler]
  /\ polls = [p \in 1..MaxPolls |-> IdlePoll]
  /\ lastCheck = Null
  /\ intervalOn = FALSE
  /\ mainPc = "realtime"
  /\ joined = TRUE
  /\ pollStart = Null
  /\ firstSignal = "ready"
  /\ calls = 0
  /\ called = 0
  /\ failed = {}
  /\ store = [o \in Orders |-> [order |-> OrderRow(o), items |-> OrderItems(o)]]
  /\ env = DefaultEnv
  /\ tracing = FALSE
  /\ slips = [h \in Handlers |-> <<>>]
  /\ history = <<>>
  /\ resolved = <<>>
  /\ given = <<>>
  /\ applied = <<>>

NextEvict ==
  \/ FetchStep
  \/ SendStep
  \/ DelayStep
  \/ InsertStep
  \/ UpdateStep

SpecEvict == InitEvict /\ [][NextEvict]_vars

\* A single order in push mode, its items, its payment method and the drawer
\* setting drawn freely; the events carry the full old record, so the order
\* is dispatched once, when it becomes paid; slips and history are recorded.
KitchenValues == (1..MaxKitchens) \cup {Null, Missing}
ItemLists ==
  UNION {{[j \in 1..n |-> Item(j, ks[j])] : ks \in [1..n -> KitchenValues]} :
         n \in 0..MaxItems}

InitPrint ==
  /\ now = 0
  /\ db = [o \in Orders |-> [payment_status |-> "absent", updated_at |-> 0]]
  /\ autoPrintEnabled = TRUE
  /\ printedOrders = <<>>
  /\ hs = [h \in Handlers |-> IdleHandler]
  /\ polls = [p \in 1..MaxPolls |-> IdlePoll]
  /\ lastCheck = Null
  /\ intervalOn = FALSE
  /\ mainPc = "realtime"
  /\ joined = TRUE
  /\ pollStart = Null
  /\ firstSignal = "ready"
  /\ calls = 0
  /\ called = 0
  /\ succeeded = {}
  /\ failed = {}
  /\ \E method \in {"cash", "online"}, items \in ItemLists :
       store = [o \in Orders |->
                  IF o = 1
                  THEN [order |-> [id |-> 1, payment_method |-> method], items |-> items]
                  ELSE [order |-> OrderRow(o), items |-> OrderItems(o)]]
  /\ \E drawer \in {"true", "false"} :
       env = [DefaultEnv EXCEPT !.OPEN_CASH_DRAWER = drawer]
  /\ tracing = TRUE
  /\ slips = [h \in Handlers |-> <<>>]
  /\ history = <<>>
  /\ resolved = <<>>
  /\ given = <<>>
  /\ applied = <<>>

InsertFirst == \E st \in Statuses : InsertOrder(1, st)
UpdateFirst == \E st \in Statuses : UpdateOrder(1, st, TRUE)

NextPrint ==
  \/ FetchStep
  \/ SendStep
  \/ DelayStep
  \/ InsertFirst
  \/ UpdateFirst

SpecPrint == InitPrint /\ [][NextPrint]_vars

\* The sample orders in push mode with events that may repeat (old records
\* with or without their columns); slips and history are recorded.
InitRetry ==
  /\ now = 0
  /\ db = [o \in Orders |-> [payment_status |-> "absent", updated_at |-> 0]]
  /\ autoPrintEnabled = TRUE
  /\ printedOrders = <<>>
  /\ hs = [h \in Handlers |-> IdleHandler]
  /\ polls = [p \in 1..MaxPolls |-> IdlePoll]
  /\ lastCheck = Null
  /\ intervalOn = FALSE
  /\ mainPc = "realtime"
  /\ joined = TRUE
  /\ pollStart = Null
  /\ firstSignal = "ready"
  /\ calls = 0
  /\ called = 0
  /\ succeeded = {}
  /\ failed = {}
  /\ store = [o \in Orders |-> [order |-> OrderRow(o), items |-> OrderItems(o)]]
  /\ env = DefaultEnv
  /\ tracing = TRUE
  /\ slips = [h \in Handlers |-> <<>>]
  /\ history = <<>>
  /\ resolved = <<>>
  /\ given = <<>>
  /\ applied = <<>>

\* Every later event on the row of order 1 is a new dispatch of that order.
UpdateAgain == \E st \in Statuses, oldFull \in BOOLEAN : UpdateOrder(1, st, oldFull)

NextRetry ==
  \/ FetchStep
  \/ SendStep
  \/ DelayStep
  \/ InsertFirst
  \/ UpdateAgain

SpecRetry == InitRetry /\ [][NextRetry]_vars

\* Destination resolution on its own: the printer variables of the
\* environment are drawn freely, and printKitchenSlip (or _printTips) asks for
\* the printer of a kitchen.
RECURSIVE StringsUpTo(_)
StringsUpTo(n) ==
  IF n = 0 THEN {<<>>}
  ELSE LET shorter == StringsUpTo(n - 1)
       IN  shorter \cup {Append(str, c) : str \in shorter, c \in Chars}
EnvValues == StringsUpTo(MaxNameLen) \cup {Unset}

InitResolve ==
  /\ now = 0
  /\ db = [o \in Orders |-> [payment_status |-> "absent", updated_at |-> 0]]
  /\ autoPrintEnabled = TRUE
  /\ printedOrders = <<>>
  /\ hs = [h \in Handlers |-> IdleHandler]
  /\ polls = [p \in 1..MaxPolls |-> IdlePoll]
  /\ lastCheck = Null
  /\ intervalOn = FALSE
  /\ mainPc = "race"
  /\ joined = FALSE
  /\ pollStart = Null
  /\ firstSignal = "none"
  /\ calls = 0
  /\ called = 0
  /\ succeeded = {}
  /\ failed = {}
  /\ store = [o \in Orders |-> [order |-> OrderRow(o), items |-> OrderItems(o)]]
  /\ \E default, name, first, unassigned \in EnvValues :
       env = [OPEN_CASH_DRAWER |-> "true",
              DEFAULT_PRINTER  |-> default,
              PRINTER_NAME     |-> name,
              KITCHEN_PRINTER  |-> [k \in KitchenKeys |->
                                      IF k = 1 THEN first
                                      ELSE IF k = Null THEN unassigned
                                      ELSE Unset],
              TZ               |-> 0]
  /\ tracing = FALSE
  /\ slips = [h \in Handlers |-> <<>>]
  /\ history = <<>>
  /\ resolved = <<>>
  /\ given = <<>>
  /\ applied = <<>>

Resolve(kitchenNumber) ==
  /\ resolved' = <<kitchenNumber, getKitchenPrinterName(env, kitchenNumber)>>
  /\ UNCHANGED <<engineVars, store, env, tracing, given, applied, traceVars>>

NextResolve == \E kitchenNumber \in KitchenKeys : Resolve(kitchenNumber)

SpecResolve == InitResolve /\ [][NextResolve]_vars

\* ------------------------------------------------------- the slip document
\* The bytes of the commands of CMD.
Cmd(op) ==
  CASE op = "init"        -> <<27, 64>>
    [] op = "alignLeft"   -> <<27, 97, 0>>
    [] op = "alignCenter" -> <<27, 97, 1>>
    [] op = "boldOn"      -> <<27, 69, 1>>
    [] op = "boldOff"     -> <<27, 69, 0>>
    [] op = "normalSize"  -> <<29, 33, 0>>
    [] op = "cutPartial"  -> <<29, 86, 65, 0>>
    [] op = "cashDrawer"  -> <<27, 112, 0, 25, 250>>
    [] op = "feed"        -> <<LF>>
\* A document is the sequence of the builder calls made on it, each with the
\* bytes it added: doc.init(), doc.boldOn(), .., doc.println(str),
\* doc.feed(n), doc.drawLine(char), doc.leftRight(left, right).
Do(op) == <<[op |-> op, bytes |-> Cmd(op)]>>
Println(str) == <<[op |-> "println", bytes |-> println(<<>>, str)]>>
Feed(n) == [i \in 1..n |-> [op |-> "feed", bytes |-> Cmd("feed")]]
DrawLine(char) == Println(repeat(char, 48))
LeftRight(left, right) == Println(leftRightLine(left, right, 48))

\* doc.toBuffer(): the bytes of the calls, in the order of the calls.
RECURSIVE toBuffer(_)
toBuffer(doc) ==
  IF doc = <<>> THEN <<>>
  ELSE toBuffer(SubSeq(doc, 1, Len(doc) - 1)) \o doc[Len(doc)].bytes

\* The lines of all rows, in the order of the rows: boldOn, the line, boldOff.
RECURSIVE ItemsBlock(_)
ItemsBlock(rows) ==
  IF rows = <<>> THEN <<>>
  ELSE LET lines == itemLines(Head(rows))
           Bold(j) == Do("boldOn") \o Println(lines[j]) \o Do("boldOff")
       IN  Bold(1) \o (IF Len(lines) > 1 THEN Bold(2) ELSE <<>>) \o ItemsBlock(Tail(rows))

\* String(n).padStart(2, '0')
TwoDigits(n) == <<48 + (n \div 10), 48 + (n % 10)>>

formatDateTime_Now(dateString, tz) ==
  LET local == now * 720 + tz
      hours == (local % 1440) \div 60
      h12   == IF hours % 12 = 0 THEN 12 ELSE hours % 12
  IN  TwoDigits(1 + (local \div 1440)) \o <<45, 48, 49, 45, 50, 48, 50, 54, 32>>
        \o TwoDigits(h12) \o <<58>> \o TwoDigits(local % 60)
        \o <<Space>> \o (IF hours >= 12 THEN <<80, 77>> ELSE <<65, 77>>)

\* formatDateTime(dateString) in a process whose local time is tz minutes
\* ahead of UTC; dateString is an instant of January 2026, given in minutes
\* since the start of the month (UTC), whose local time is in that month too.
formatDateTime(dateString, tz) ==
  LET local == dateString + tz
      day   == 1 + (local \div 1440)
      hours == (local % 1440) \div 60
      mins  == local % 60
      ampm  == IF hours >= 12 THEN <<80, 77>> ELSE <<65, 77>>
      h12   == IF hours % 12 = 0 THEN 12 ELSE hours % 12
  IN  TwoDigits(day) \o <<45, 48, 49, 45, 50, 48, 50, 54, 32>> \o TwoDigits(h12) \o <<58>> \o TwoDigits(mins)
        \o <<Space>> \o ampm

slipEnd_DrawerFirst(pulse) ==
  Feed(3) \o (IF pulse THEN Do("cashDrawer") ELSE <<>>) \o Do("cutPartial")

\* The end of a slip: doc.feed(3), the cut and, if asked for, the drawer pulse.
slipEnd(pulse) ==
  Feed(3) \o Do("cutPartial") \o (IF pulse THEN Do("cashDrawer") ELSE <<>>)

\* The document printKitchenSlip builds for a kitchen that has rows.
slipDocument(order, items, kitchenNumber, kitchenIndex, totalKitchens, pulse, tz) ==
  LET rows    == kitchenItems(items, kitchenNumber)
      totals  == Totals(order, items, rows)
      kitchen == IF kitchenNumber # Null THEN StringOfNat(kitchenNumber) ELSE <<85, 110, 97, 115, 115, 105, 103, 110, 101, 100>>
      multi   == totalKitchens > 1
      table   == order.order_type # "delivery" /\ order.table_number # Missing
      name    == TextOf(order.customer_name) # <<>>
      phone   == TextOf(order.customer_phone) # <<>>
  IN  Do("init")
        \o Do("alignLeft") \o Do("normalSize")
        \o LeftRight(formatDateTime(order.created_at, tz),
                     <<82, 101, 99, 101, 105, 112, 116, 32, 35>> \o StringOfNat(order.order_number))
        \o Println(<<83, 116, 111, 114, 101, 58, 32, 49>>)
        \o Feed(1)
        \o Do("alignCenter")
        \o Do("boldOn") \o Println(<<65, 83, 84, 72, 65, 32, 72, 74, 66, 32, 67, 97, 110, 116, 101, 101, 110>>) \o Do("boldOff")
        \o Println(<<72, 74, 66, 32, 72, 97, 108, 108, 44, 32, 73, 73, 84, 32, 75, 104, 97, 114, 97, 103, 112, 117, 114>>)
        \o Println(<<87, 101, 115, 116, 32, 66, 101, 110, 103, 97, 108>>)
        \o Println(<<43, 57, 49, 45, 57, 51, 51, 51, 49, 57, 48, 50, 50, 52>>)
        \o Feed(1)
        \o Do("alignLeft") \o DrawLine(9472)
        \o Do("alignCenter")
        \o Do("boldOn")
        \o Println(IF kitchenNumber # Null
                   THEN <<75, 73, 84, 67, 72, 69, 78, 32>> \o StringOfNat(kitchenNumber)
                   ELSE <<75, 73, 84, 67, 72, 69, 78, 32, 40, 85, 78, 65, 83, 83, 73, 71, 78, 69, 68, 41>>)
        \o (IF multi
            THEN Println(<<83, 108, 105, 112, 32>> \o StringOfNat(kitchenIndex) \o <<32, 111, 102, 32>> \o StringOfNat(totalKitchens))
            ELSE <<>>)
        \o Do("boldOff")
        \o Do("alignLeft") \o DrawLine(9472)
        \o Feed(1)
        \o (IF table
            THEN Do("alignCenter") \o Do("boldOn")
                   \o Println(<<84, 65, 66, 76, 69, 32>> \o StringOfNat(order.table_number))
                   \o Do("boldOff") \o Feed(1)
            ELSE <<>>)
        \o Do("alignLeft")
        \o (IF name THEN LeftRight(<<67, 117, 115, 116, 111, 109, 101, 114, 58>>, order.customer_name) ELSE <<>>)
        \o (IF phone THEN LeftRight(<<80, 104, 111, 110, 101, 58>>, order.customer_phone) ELSE <<>>)
        \o (IF name \/ phone THEN Feed(1) ELSE <<>>)
        \o Do("alignLeft")
        \o Do("boldOn") \o Println(headerRow) \o Do("boldOff")
        \o DrawLine(9472)
        \o ItemsBlock(rows)
        \o Feed(1)
        \o (IF multi
            THEN Do("alignLeft") \o DrawLine(45)
                   \o LeftRight(<<75, 105, 116, 99, 104, 101, 110, 32>> \o kitchen \o <<32, 115, 117, 98, 116, 111, 116, 97, 108, 58>>,
                                toFixedString(toFixed2(Subtotal(rows) * 100)))
                   \o Feed(1)
            ELSE <<>>)
        \o Do("alignLeft") \o DrawLine(9472)
        \o LeftRight(<<79, 114, 100, 101, 114, 32, 83, 117, 98, 116, 111, 116, 97, 108, 58>>, toFixedString(totals.allSubtotal))
        \o LeftRight(<<83, 101, 114, 118, 105, 99, 101, 32, 67, 104, 97, 114, 103, 101, 115, 32, 40, 50, 37, 41, 58>>, toFixedString(totals.serviceCharge))
        \o Do("boldOn")
        \o LeftRight((IF totals.payLabel = "Cash" THEN <<67, 97, 115, 104>> ELSE <<79, 110, 108, 105, 110, 101>>) \o <<32, 40, 84, 111, 116, 97, 108, 41, 58>>,
                     toFixedString(totals.grandTotal))
        \o Do("boldOff")
        \o Feed(1)
        \o Do("alignLeft") \o DrawLine(9472)
        \o Do("alignCenter") \o Feed(1)
        \o Println(<<84, 104, 97, 110, 107, 115, 32, 102, 111, 114, 32, 100, 105, 110, 105, 110, 103, 32, 119, 105, 116, 104, 32, 117, 115, 33>>)
        \o Feed(1)
        \o (IF order.order_type = "delivery"
            THEN Do("boldOn") \o Println(<<68, 69, 76, 73, 86, 69, 82, 89, 32, 79, 82, 68, 69, 82>>) \o Do("boldOff")
            ELSE <<>>)
        \o slipEnd(pulse)

\* ---------------------------------------------- the helpers of printer.js
\* A helper on its own: service and store are idle, the arguments of the call
\* are drawn freely (given), and the call leaves its result in applied.
IdleService ==
  /\ now = 0
  /\ db = [o \in Orders |-> [payment_status |-> "absent", updated_at |-> 0]]
  /\ autoPrintEnabled = TRUE
  /\ printedOrders = <<>>
  /\ hs = [h \in Handlers |-> IdleHandler]
  /\ polls = [p \in 1..MaxPolls |-> IdlePoll]
  /\ lastCheck = Null
  /\ intervalOn = FALSE
  /\ mainPc = "race"
  /\ joined = FALSE
  /\ pollStart = Null
  /\ firstSignal = "none"
  /\ calls = 0
  /\ called = 0
  /\ succeeded = {}
  /\ failed = {}
  /\ store = [o \in Orders |-> [order |-> OrderRow(o), items |-> OrderItems(o)]]
  /\ tracing = FALSE
  /\ slips = [h \in Handlers |-> <<>>]
  /\ history = <<>>
  /\ resolved = <<>>
  /\ applied = <<>>

\* The call returns result: only applied changes.
Returns(result) ==
  /\ applied = <<>>
  /\ applied' = <<result>>
  /\ UNCHANGED <<engineVars, store, env, tracing, resolved, given, traceVars>>

\* The totals block for items whose quantities are drawn freely; the unit
\* prices are those of the sample order, whole currency units, so that 2% of
\* a subtotal is a whole number of cents.
Prices == {ItemPrice(j) : j \in 1..3}
PricedItems ==
  {[id |-> 0, kitchen_number |-> Null, item_price |-> p, quantity |-> q] :
     p \in Prices, q \in 1..MaxQuantity}
PricedLists == UNION {[1..n -> PricedItems] : n \in 0..MaxItems}

InitTotals ==
  /\ IdleService
  /\ env = DefaultEnv
  /\ \E items \in PricedLists, method \in {"cash", "online"} :
       given = [order |-> [id |-> 1, payment_method |-> method], items |-> items]

ComputeTotals ==
  Returns(Totals(given.order, given.items, kitchenItems(given.items, Null)))

NextTotals == ComputeTotals

SpecTotals == InitTotals /\ [][NextTotals]_vars


\* The formatting helpers on their own: col, leftRight, println and the lines
\* of an item, each called once with arguments drawn freely.
CharCodes == {65, 233, 9472}
RECURSIVE TextsUpTo(_)
TextsUpTo(n) ==
  IF n = 0 THEN {<<>>}
  ELSE LET shorter == TextsUpTo(n - 1)
       IN  shorter \cup {Append(str, c) : str \in shorter, c \in CharCodes}
Texts == TextsUpTo(MaxText)
Widths == 0..MaxWidth
\* An item name of n characters, each one telling its position.
NameOfLength(n) == [i \in 1..n |-> 65 + (i % 26)]
ItemNames == {NameOfLength(n) : n \in 0..(21 + MaxOverflow)} \cup {NoText}
NamedItems ==
  {[id |-> 0, kitchen_number |-> Null, item_name |-> name, item_price |-> p, quantity |-> q] :
     name \in ItemNames, p \in Prices, q \in 1..MaxQuantity}

InitFormat ==
  /\ IdleService
  /\ env = DefaultEnv
  /\ \/ \E text \in Texts \cup {NoText}, width \in Widths,
           align \in {"left", "right", "center"} :
          given = [fn |-> "col", text |-> text, width |-> width, align |-> align]
     \/ \E left \in Texts, right \in Texts, width \in Widths :
          given = [fn |-> "leftRight", left |-> left, right |-> right, width |-> width]
     \/ \E str \in Texts : given = [fn |-> "println", str |-> str]
     \/ \E item \in NamedItems : given = [fn |-> "itemLines", item |-> item]

ColReturns ==
  /\ given.fn = "col"
  /\ Returns(col(given.text, given.width, given.align))
LeftRightReturns ==
  /\ given.fn = "leftRight"
  /\ Returns(println(<<>>, leftRightLine(given.left, given.right, given.width)))
PrintlnReturns ==
  /\ given.fn = "println"
  /\ Returns(println(<<>>, given.str))
ItemLinesReturns ==
  /\ given.fn = "itemLines"
  /\ Returns(itemLines(given.item))

NextFormat ==
  \/ ColReturns
  \/ LeftRightReturns
  \/ PrintlnReturns
  \/ ItemLinesReturns

SpecFormat == InitFormat /\ [][NextFormat]_vars


\* printKitchenSlip on its own: the slip of one kitchen is built, up to
\* MaxBuilds times, from arguments drawn freely, while the clock advances.
TimeZones == {0, 330}
SlipOrders ==
  {[id |-> 1, order_number |-> 101, created_at |-> 0, order_type |-> "dine_in",
    table_number |-> 5, customer_name |-> <<65, 233>>, customer_phone |-> <<57, 51>>,
    payment_method |-> "cash"],
   [id |-> 1, order_number |-> 101, created_at |-> 1125, order_type |-> "delivery",
    table_number |-> 5, customer_name |-> NoText, customer_phone |-> NoText,
    payment_method |-> "online"],
   [id |-> 1, order_number |-> 7, created_at |-> 1125, order_type |-> "dine_in",
    table_number |-> Missing, customer_name |-> <<65, 233>>, customer_phone |-> NoText,
    payment_method |-> "online"],
   [id |-> 1, order_number |-> 7, created_at |-> 0, order_type |-> "delivery",
    table_number |-> Missing, customer_name |-> NoText, customer_phone |-> <<57, 51>>,
    payment_method |-> "cash"]}
\* The name of the j-th item: 'Veg Biryani', a name longer than the name
\* column, no name.
SlipName(j) ==
  IF j % 3 = 1 THEN <<86, 101, 103, 32, 66, 105, 114, 121, 97, 110, 105>>
  ELSE IF j % 3 = 2 THEN NameOfLength(21 + MaxOverflow) ELSE NoText
Named(items) ==
  [j \in 1..Len(items) |->
     [id |-> items[j].id, kitchen_number |-> items[j].kitchen_number,
      item_name |-> SlipName(j), item_price |-> items[j].item_price,
      quantity |-> items[j].quantity]]
\* The items are those of kitchen 1 and those without a kitchen.
SlipKitchens == {1, Null}
SlipItemLists ==
  UNION {{[j \in 1..n |-> Item(j, ks[j])] : ks \in [1..n -> SlipKitchens]} : n \in 0..MaxItems}

InitSlip ==
  /\ IdleService
  /\ \E tz \in TimeZones : env = [DefaultEnv EXCEPT !.TZ = tz]
  /\ \E order \in SlipOrders, items \in SlipItemLists, kitchenNumber \in SlipKitchens,
        totalKitchens \in {1, MaxKitchens}, pulse \in BOOLEAN :
       \E kitchenIndex \in {1, totalKitchens} :
         given = [order |-> order, items |-> Named(items), kitchenNumber |-> kitchenNumber,
                  kitchenIndex |-> kitchenIndex, totalKitchens |-> totalKitchens,
                  openDrawer |-> pulse]

\* printKitchenSlip up to its await: no document for a kitchen without rows,
\* otherwise the document, whose bytes are handed to sendToPrinter.
BuildSlip ==
  /\ Len(applied) < MaxBuilds
  /\ applied' = Append(applied,
       IF kitchenItems(given.items, given.kitchenNumber) = <<>>
       THEN [skipped |-> TRUE, doc |-> <<>>, bytes |-> <<>>]
       ELSE LET doc == slipDocument(given.order, given.items, given.kitchenNumber,
                                    given.kitchenIndex, given.totalKitchens,
                                    given.openDrawer, env.TZ)
            IN  [skipped |-> FALSE, doc |-> doc, bytes |-> toBuffer(doc)])
  /\ UNCHANGED <<engineVars, store, env, tracing, resolved, given, traceVars>>

NextSlip ==
  \/ BuildSlip
  \/ Tick

SpecSlip == InitSlip /\ [][NextSlip]_vars


\* ------------------------------------------------------------------ claims
Ledger      == Range(printedOrders)
ActiveSet   == {h \in Handlers : Active(h)}

\* Step predicates.
\* handlePaidOrder is invoked in this step with identifier o.
CallOf(o) == calls' = calls + 1 /\ called' = o
\* ... by a push callback (a poll that invokes it moves on in its loop).
PushCallOf(o) == CallOf(o) /\ polls' = polls
\* Execution h receives the result of printOrder in this step.
PrintOrderReturnsIn(h) ==
  /\ hs[h].pc = "send"
  /\ hs[h].i = Len(hs[h].kitchens)
  /\ hs'[h] # hs[h]
\* ... a result that is a partial failure because an earlier slip failed.
PartialFailureIn(h) == PrintOrderReturnsIn(h) /\ ~hs[h].allSuccess

\* C1: an identifier is in the ledger only if a dispatch for it returned
\* overall success, and a handlePaidOrder execution whose dispatch had a
\* failed partition leaves the ledger without the identifier it did not hold.
C1_LedgerOnlyOnSuccess ==
  /\ [](Ledger \subseteq succeeded)
  /\ [][\A h \in Handlers :
          PartialFailureIn(h) /\ hs[h].id \notin Ledger
            => hs[h].id \notin Range(printedOrders')]_vars

C1_Witness ==
  \E o1, o2 \in Orders :
    /\ o1 \in failed /\ o1 \notin Ledger /\ \A h \in Handlers : hs[h].id # o1
    /\ o2 \in Ledger

C3_OneHandlerAtATime == Cardinality(ActiveSet) <= 1

\* C4: at most one dispatch per order identifier is in flight at any time.
C4_OneInFlightPerOrder ==
  \A h1, h2 \in ActiveSet : h1 # h2 => hs[h1].id # hs[h2].id

\* C5: in pull mode an order whose dispatch ended in partial failure is
\* re-attempted by the next poll without a further change to its row: when
\* no poll and no execution is in progress, the row of every such order that
\* is not in the ledger is within the window of the next poll's query.
C5_RetriedByNextPoll ==
  (mainPc = "polling" /\ ActiveSet = {} /\ FreePolls = Pollers)
    => \A o \in failed \ Ledger :
         db[o].payment_status = PrintOnPaymentStatus => db[o].updated_at >= lastCheck

\* C6: the ledger never holds more than 200 identifiers, and inserting a new
\* identifier into a full ledger evicts exactly the oldest one: the others keep
\* their insertion order and the new one is last; the first full success of an
\* order always inserts its identifier.
C6_Eviction ==
  /\ [](Len(printedOrders) <= Capacity)
  /\ [](Cardinality(Ledger) = Len(printedOrders))
  /\ [][/\ printedOrders' # printedOrders =>
            \E id \in Orders \ Ledger :
              printedOrders' = (IF Len(printedOrders) = Capacity
                                THEN Tail(printedOrders) ELSE printedOrders) \o <<id>>
        /\ \A id \in succeeded' \ succeeded :
            /\ id \notin Ledger
            /\ printedOrders' # <<>>
            /\ printedOrders'[Len(printedOrders')] = id]_vars

\* The 201st identifier has been inserted and the oldest one is gone.
C6_Witness ==
  /\ Len(printedOrders) = Capacity
  /\ printedOrders[1] = MaxOrders + 2
  /\ printedOrders[Capacity] \in Orders
  /\ succeeded \ Ledger = {MaxOrders + 1}

\* C7: in push mode an insert event qualifies iff the new payment status is
\* the trigger value, an update event qualifies iff the new value is the
\* trigger value and the old value was not; an update to an already-paid
\* order never invokes handlePaidOrder.
C7_TriggerQualification ==
  [][\A o \in Orders :
       LET old == db[o].payment_status
           new == db'[o].payment_status
       IN  /\ PushCallOf(o)
                => /\ new = PrintOnPaymentStatus
                   /\ old # PrintOnPaymentStatus
           /\ (joined /\ db'[o] # db[o] /\ new = PrintOnPaymentStatus
                      /\ old # PrintOnPaymentStatus)
                => PushCallOf(o)]_vars

\* C8: once mode selection has ended in pull mode, the push subscription
\* forwards no event to handlePaidOrder: every execution in progress has been
\* started by a poll.
C8_ExactlyOneMode ==
  mainPc = "polling" => \A h \in ActiveSet : Awaiting(h) # {}

\* C9: pull mode is started if the first thing the subscription attempt
\* reports is a fatal status or the 10 s timer, and it is never started if
\* the first thing is SUBSCRIBED.
PullStarted == pollStart # Null
C9_Failover ==
  /\ firstSignal = "none"   => mainPc = "race" /\ ~PullStarted
  /\ firstSignal = "failed" => /\ mainPc = "polling"
                               /\ PullStarted
                               /\ lastCheck >= pollStart
                               /\ FreePolls # Pollers \/ intervalOn
  /\ firstSignal = "ready"  => /\ mainPc = "realtime"
                               /\ ~PullStarted
                               /\ ~intervalOn
                               /\ FreePolls = Pollers

C9_Witness == mainPc = "polling" /\ intervalOn /\ lastCheck > pollStart

\* C10: lastCheck starts at the start of polling and never decreases, and no
\* row a poll holds (and forwards to handlePaidOrder) has a change timestamp
\* before the start of polling.
C10_NoHistoricalReplay ==
  /\ [](PullStarted => lastCheck >= pollStart)
  /\ [](\A p \in Pollers : \A k \in 1..Len(polls[p].orders) :
          polls[p].orders[k].updated_at >= pollStart)
  /\ [](\A p \in Pollers : polls[p].pc # "idle" => polls[p].since >= pollStart)
  /\ [][lastCheck' >= lastCheck]_vars

\* A poll forwards a row while an older paid row, unprinted, is in the store.
C10_Witness ==
  \E p \in Pollers, o \in Orders :
    /\ polls[p].pc = "loop"
    /\ db[o].payment_status = PrintOnPaymentStatus
    /\ db[o].updated_at < pollStart
    /\ o \notin Ledger

\* ---------------------------------------------------- claims on dispatch
\* The finished executions that called printOrder.
Printed == {n \in 1..Len(history) : history[n].printed}
\* The kitchens of a sequence of attempted slips, in the order of the attempts.
KitchensOf(attempts) == [j \in 1..Len(attempts) |-> attempts[j].slip.kitchenNumber]
\* The partition key of an item, and the partition keys of an item list:
\* the numbers ascending, the unassigned key last.
KeyOf(item) == IF item.kitchen_number \in {Null, Missing} THEN Null ELSE item.kitchen_number
PartitionKeys(items) ==
  LET keys == {KeyOf(items[j]) : j \in 1..Len(items)}
  IN  SortAsc(keys \ {Null}) \o (IF Null \in keys THEN <<Null>> ELSE <<>>)

\* C11: failure isolation. Every finished printOrder call has attempted one
\* slip for each partition of the order's items, once each and in partition
\* order, whatever the results of the slips were; a call in progress has
\* attempted the partitions before its current one; every execution that
\* called printOrder received a result (nothing was thrown).
C11_FailureIsolation ==
  /\ \A n \in Printed :
       /\ KitchensOf(history[n].slips) = PartitionKeys(store[history[n].id].items)
       /\ \A j \in 1..Len(history[n].slips) : ~history[n].slips[j].slip.skipped
  /\ \A h \in Handlers :
       hs[h].pc \in {"send", "delay"} =>
         /\ hs[h].kitchens = PartitionKeys(store[hs[h].id].items)
         /\ KitchensOf(slips[h]) =
              SubSeq(hs[h].kitchens, 1,
                     IF hs[h].pc = "send" THEN hs[h].i - 1 ELSE hs[h].i)

\* A dispatch whose first slip failed and whose second slip succeeded.
C11_Witness ==
  \E n \in Printed :
    /\ Len(history[n].slips) >= 2
    /\ ~history[n].slips[1].ok
    /\ history[n].slips[2].ok

\* C12: the success flag printOrder returns is true iff every slip it
\* attempted succeeded; one failed slip, at any position, makes it false.
C12_OverallSuccess ==
  \A n \in Printed :
    history[n].success <=> \A j \in 1..Len(history[n].slips) : history[n].slips[j].ok

\* A dispatch that returned failure although its last slip succeeded.
C12_Witness ==
  \E n \in Printed :
    /\ Len(history[n].slips) >= 2
    /\ ~history[n].success
    /\ history[n].slips[Len(history[n].slips)].ok

\* C13: partition coverage. In every finished dispatch each item of the
\* order is a row of exactly one slip, once, and that slip is the one of the
\* item's kitchen_number (the unassigned slip iff the kitchen_number is null
\* or missing); every slip has rows, all of them items of the order, and none
\* is skipped.
C13_PartitionCoverage ==
  \A n \in Printed :
    LET attempts == history[n].slips
        items    == store[history[n].id].items
        On(j, k) == {m \in 1..Len(attempts[k].slip.rows) : attempts[k].slip.rows[m] = items[j]}
    IN  /\ \A j \in 1..Len(items) :
             \E k \in 1..Len(attempts) :
               /\ Cardinality(On(j, k)) = 1
               /\ attempts[k].slip.kitchenNumber = KeyOf(items[j])
               /\ (attempts[k].slip.kitchenNumber = Null)
                    <=> (items[j].kitchen_number \in {Null, Missing})
               /\ \A k2 \in 1..Len(attempts) : k2 # k => On(j, k2) = {}
        /\ \A k \in 1..Len(attempts) :
             /\ ~attempts[k].slip.skipped
             /\ attempts[k].slip.rows # <<>>
             /\ Range(attempts[k].slip.rows) \subseteq Range(items)

\* A finished dispatch of an order with a numbered item and an item without
\* kitchen_number.
C13_Witness ==
  \E n \in Printed :
    LET items == store[history[n].id].items
    IN  /\ Len(history[n].slips) = 2
        /\ \E j \in 1..Len(items) : items[j].kitchen_number = Missing
        /\ \E j \in 1..Len(items) : items[j].kitchen_number \in 1..MaxKitchens

\* C14: partition ordering. For every order of the items of an order,
\* getUniqueKitchens yields each distinct key once, the numbers ascending and
\* the unassigned key last; printOrder returns this list and has sent its
\* slips in this order.
PermutationsOf(items) ==
  {[j \in 1..Len(items) |-> items[f[j]]] : f \in Permutations(1..Len(items))}
C14_PartitionOrdering ==
  /\ \A o \in Orders : \A p \in PermutationsOf(store[o].items) :
       getUniqueKitchens(p) = PartitionKeys(store[o].items)
  /\ \A n \in Printed :
       /\ history[n].kitchens = PartitionKeys(store[history[n].id].items)
       /\ KitchensOf(history[n].slips) = history[n].kitchens

\* A finished dispatch of an order whose first item has no kitchen and whose
\* second item has a number: the numbered slip went first.
C14_Witness ==
  \E n \in Printed :
    LET items == store[history[n].id].items
    IN  /\ Len(items) >= 2
        /\ items[1].kitchen_number \in {Null, Missing}
        /\ items[2].kitchen_number \in 1..MaxKitchens
        /\ KitchensOf(history[n].slips) = <<items[2].kitchen_number, Null>>

\* C15: empty dispatch. For an order without items printOrder produces no
\* partition, attempts no slip and returns success with an empty kitchen
\* list.
C15_EmptyDispatch ==
  /\ \A o \in Orders : store[o].items = <<>> => getUniqueKitchens(store[o].items) = <<>>
  /\ \A n \in Printed :
       store[history[n].id].items = <<>>
         => /\ history[n].success
            /\ history[n].kitchens = <<>>
            /\ history[n].slips = <<>>
  /\ \A h \in Handlers :
       hs[h].pc \in {"send", "delay"} => store[hs[h].id].items # <<>>

\* The dispatch of an order without items has returned.
C15_Witness ==
  \E n \in Printed : store[history[n].id].items = <<>> /\ history[n].success

\* C16: cash drawer. A slip is built with the drawer pulse iff
\* OPEN_CASH_DRAWER is 'true', the order's payment method is cash and the slip
\* is the first one of its dispatch; so at most one slip of a dispatch has
\* the pulse.
DrawerFor(o) ==
  env.OPEN_CASH_DRAWER = "true" /\ store[o].order.payment_method = "cash"
DrawerOnFirstOnly(o, attempts) ==
  \A j \in 1..Len(attempts) : attempts[j].slip.cashDrawer <=> (DrawerFor(o) /\ j = 1)
C16_CashDrawer ==
  /\ \A n \in Printed :
       /\ DrawerOnFirstOnly(history[n].id, history[n].slips)
       /\ Cardinality({j \in 1..Len(history[n].slips) :
                         history[n].slips[j].slip.cashDrawer}) <= 1
  /\ \A h \in Handlers :
       /\ DrawerOnFirstOnly(hs[h].id, slips[h])
       /\ hs[h].pc = "send" => (Slip(h).cashDrawer <=> (DrawerFor(hs[h].id) /\ slips[h] = <<>>))

\* A finished dispatch of two slips, the first with the pulse.
C16_Witness ==
  \E n \in Printed :
    /\ Len(history[n].slips) = 2
    /\ history[n].slips[1].slip.cashDrawer
    /\ ~history[n].slips[2].slip.cashDrawer

\* C17: destination resolution. For a numbered kitchen the result is the
\* name in KITCHEN_{k}_PRINTER when that variable is set and not empty,
\* otherwise the process-wide default (the name in DEFAULT_PRINTER, else in
\* PRINTER_NAME, else the built-in name); for the unassigned key it is the
\* default whatever KITCHEN_*_PRINTER variables are set. The name in a
\* variable is its value without a double quote at its start and at its end.
IsSet(v) == v \notin {Unset, <<>>}
ConfiguredDefault ==
  IF IsSet(env.DEFAULT_PRINTER) THEN env.DEFAULT_PRINTER
  ELSE IF IsSet(env.PRINTER_NAME) THEN env.PRINTER_NAME
  ELSE DefaultName
C17_DestinationResolution ==
  resolved # <<>> =>
    LET k        == resolved[1]
        name     == resolved[2]
        override == env.KITCHEN_PRINTER[k]
    IN  /\ (k # Null /\ IsSet(override))  => name = Unquote(override)
        /\ (k # Null /\ ~IsSet(override)) => name = Unquote(ConfiguredDefault)
        /\ k = Null                       => name = Unquote(ConfiguredDefault)

\* The printer of the unassigned key has been resolved while
\* KITCHEN_null_PRINTER and KITCHEN_1_PRINTER name another printer than the
\* default.
C17_Witness ==
  /\ resolved # <<>>
  /\ resolved[1] = Null
  /\ IsSet(env.KITCHEN_PRINTER[Null])
  /\ IsSet(env.KITCHEN_PRINTER[1])
  /\ Unquote(env.KITCHEN_PRINTER[Null]) # resolved[2]
  /\ Unquote(env.KITCHEN_PRINTER[1]) # resolved[2]

\* C18: fetch failure. An execution whose fetch failed has called printOrder
\* not at all and has attempted no slip; the step in which it ends leaves the
\* ledger as it is and returns normally; a later call for an identifier that
\* is not in the ledger starts a fresh execution with a new fetch.
FetchFailedIn(h) ==
  /\ hs[h].pc = "fetch"
  /\ Len(history') = Len(history) + 1
  /\ history'[Len(history')].execution = h
  /\ ~history'[Len(history')].fetched
C18_FetchFailure ==
  /\ [](\A n \in 1..Len(history) :
          ~history[n].fetched => ~history[n].printed /\ history[n].slips = <<>>)
  /\ [][/\ \A h \in Handlers :
            FetchFailedIn(h) => /\ printedOrders' = printedOrders
                                /\ hs' = [hs EXCEPT ![h] = IdleHandler]
                                /\ slips' = slips
                                /\ slips[h] = <<>>
        /\ \A o \in Orders :
            PushCallOf(o) /\ o \notin Ledger
              => \E h \in Handlers : ~Active(h) /\ hs'[h].pc = "fetch" /\ hs'[h].id = o]_vars

\* The fetch of an order failed, and a later execution for the same order
\* fetched it and dispatched it with success.
C18_Witness ==
  \E m, n \in 1..Len(history) :
    /\ m < n
    /\ history[m].id = history[n].id
    /\ ~history[m].fetched
    /\ history[m].execution = history[n].execution
    /\ history[n].printed /\ history[n].success /\ history[n].slips # <<>>
    /\ history[n].id \in Ledger

\* C19: retry is not partition-granular. A dispatch of an order that comes
\* after a dispatch of the same order with a failed slip attempts a slip for
\* every partition, those whose slip succeeded before included, and its first
\* slip has the drawer pulse iff the drawer is enabled and the payment is cash.
SentOk(attempts) == {attempts[j].slip.kitchenNumber : j \in {k \in 1..Len(attempts) : attempts[k].ok}}
C19_RetryNotGranular ==
  \A m, n \in Printed :
    (m < n /\ history[m].id = history[n].id /\ ~history[m].success)
      => /\ KitchensOf(history[n].slips) = PartitionKeys(store[history[n].id].items)
         /\ SentOk(history[m].slips) \subseteq Range(KitchensOf(history[n].slips))
         /\ history[n].slips # <<>>
         /\ history[n].slips[1].slip.cashDrawer <=> DrawerFor(history[n].id)

\* The first slip succeeded and the second failed; the retry, started after
\* that dispatch was over, sent both slips, the first with the pulse again.
C19_Witness ==
  \E m, n \in Printed :
    /\ m < n
    /\ history[m].id = history[n].id
    /\ history[m].execution = history[n].execution
    /\ Len(history[m].slips) = 2
    /\ history[m].slips[1].ok /\ ~history[m].slips[2].ok
    /\ history[m].slips[1].slip.cashDrawer
    /\ Len(history[n].slips) = 2
    /\ history[n].slips[1].ok /\ history[n].slips[1].slip.cashDrawer
    /\ history[n].success

\* C20: the totals block is the same on every slip of a dispatch: subtotal,
\* service charge and grand total are those of the full item set of the
\* order, whatever the slip's kitchen, index and rows.
RECURSIVE OrderSubtotal(_)
OrderSubtotal(items) ==
  IF items = <<>> THEN 0
  ELSE Head(items).item_price * Head(items).quantity + OrderSubtotal(Tail(items))
C20_SameTotals ==
  \A n \in Printed :
    LET attempts == history[n].slips
        full     == OrderSubtotal(store[history[n].id].items)
    IN  /\ \A j, k \in 1..Len(attempts) : attempts[j].slip.totals = attempts[k].slip.totals
        /\ \A j \in 1..Len(attempts) :
             /\ attempts[j].slip.totals.allSubtotal = full
             /\ attempts[j].slip.totals.serviceCharge * 100 = full * ServiceChargePercent
             /\ attempts[j].slip.totals.grandTotal
                  = full + attempts[j].slip.totals.serviceCharge

\* A finished dispatch of two slips whose kitchens have different subtotals,
\* both below the order subtotal on the slips.
C20_Witness ==
  \E n \in Printed :
    /\ Len(history[n].slips) = 2
    /\ history[n].slips[1].slip.kitchenSubtotal # history[n].slips[2].slip.kitchenSubtotal
    /\ history[n].slips[1].slip.kitchenSubtotal < history[n].slips[1].slip.totals.allSubtotal
    /\ history[n].slips[2].slip.kitchenSubtotal < history[n].slips[2].slip.totals.allSubtotal

\* ------------------------------------------------ claims on the slip text
\* C21: totals arithmetic, in cents. The subtotal of the totals block is the
\* sum over all items of unit price times quantity, the service charge is 2%
\* of the subtotal and the grand total is subtotal plus service charge; for
\* the items (120.00 x 2), (15.00 x 3) they are 285.00, 5.70 and 290.70.
Result == applied[1]
Amounts(items) == [j \in 1..Len(items) |-> <<items[j].item_price, items[j].quantity>>]
C21_TotalsArithmetic ==
  applied # <<>> =>
    LET sum == OrderSubtotal(given.items)
    IN  /\ Result.allSubtotal = sum
        /\ Result.serviceCharge * 50 = sum
        /\ Result.grandTotal = sum + Result.serviceCharge
        /\ Amounts(given.items) = << <<12000, 2>>, <<1500, 3>> >>
             => /\ Result.allSubtotal = 28500
                /\ Result.serviceCharge = 570
                /\ Result.grandTotal = 29070

\* The totals of the items (120.00 x 2), (15.00 x 3) have been computed.
C21_Witness ==
  /\ applied # <<>>
  /\ Amounts(given.items) = << <<12000, 2>>, <<1500, 3>> >>
  /\ Result.grandTotal = 29070

\* The items of scenario A: Veg Biryani (2 x 120.00, kitchen 1), Roti
\* (3 x 15.00, kitchen 2), Water (2 x 20.00, no kitchen).
ScenarioA == <<Item(1, 1), Item(2, 2), Item(3, Null)>>
\* What scenario A says of a finished dispatch apart from the grand total:
\* three partitions in the order 1, 2, unassigned; slip 1 of 3 is the one of
\* kitchen 1 and its only row is Veg Biryani; the drawer pulse is on slip 1
\* iff the payment is cash and the drawer is enabled, and on no other slip.
ScenarioASlips(n) ==
  LET attempts == history[n].slips
  IN  /\ history[n].kitchens = <<1, 2, Null>>
      /\ KitchensOf(attempts) = <<1, 2, Null>>
      /\ attempts[1].slip.kitchenIndex = 1
      /\ attempts[1].slip.totalKitchens = 3
      /\ attempts[1].slip.rows = <<Item(1, 1)>>
      /\ attempts[1].slip.cashDrawer
           <=> (store[history[n].id].order.payment_method = "cash"
                  /\ env.OPEN_CASH_DRAWER = "true")
      /\ ~attempts[2].slip.cashDrawer
      /\ ~attempts[3].slip.cashDrawer

\* C22 as stated: in scenario A the totals block of slip 1 has the grand
\* total 290.70.
C22_ScenarioA_Stated ==
  \A n \in Printed :
    store[history[n].id].items = ScenarioA
      => /\ ScenarioASlips(n)
         /\ history[n].slips[1].slip.totals.grandTotal = 29070

\* C22, amended: scenario A produces the partitions 1, 2, unassigned; slip 1
\* of 3 lists only Veg Biryani and carries the totals of the full order, which
\* are subtotal 325.00, service charge 6.50 and grand total 331.50 (Water
\* counts); the drawer pulse is on slip 1 only, iff cash and enabled.
C22_ScenarioA ==
  \A n \in Printed :
    store[history[n].id].items = ScenarioA
      => /\ ScenarioASlips(n)
         /\ history[n].slips[1].slip.totals.allSubtotal = 32500
         /\ history[n].slips[1].slip.totals.serviceCharge = 650
         /\ history[n].slips[1].slip.totals.grandTotal = 33150

\* The dispatch of scenario A, paid in cash with the drawer enabled, is over.
C22_Witness ==
  \E n \in Printed :
    /\ store[history[n].id].items = ScenarioA
    /\ Len(history[n].slips) = 3
    /\ history[n].slips[1].slip.cashDrawer

\* ------------------------------------------------------ claims on the modes
\* C28: mid-session push loss does not change the mode. Once main() has
\* entered push mode (the subscription reported ready while main() awaited
\* it), no later status (CLOSED, CHANNEL_ERROR, TIMED_OUT) and no expiry of
\* the startup timer starts pull mode, and main() never returns to the
\* subscription attempt: pull mode is not running and no step starts it.
PullIdle ==
  /\ ~intervalOn
  /\ pollStart = Null
  /\ lastCheck = Null
  /\ polls = [p \in 1..MaxPolls |-> IdlePoll]
C28_NoFailoverAfterReady ==
  /\ [](mainPc = "realtime" => PullIdle /\ firstSignal = "ready")
  /\ [][mainPc = "realtime" => mainPc' = "realtime" /\ PullIdle']_vars

\* Push mode was entered and the subscription is lost.
C28_Witness ==
  /\ mainPc = "realtime"
  /\ firstSignal = "ready"
  /\ ~joined

\* C30: pull mode misses no change. An order that has the trigger status, was
\* changed at or after the start of pull mode, is not in the ledger and has
\* never been handed to handlePaidOrder is still going to be returned by a
\* poll: its change is not older than lastCheck, or a poll whose query is
\* pending asks for it, or it is further on in the result a poll is
\* working through.
NeverForwarded(o) == calls = 0 \/ (calls = 1 /\ called # o)
StillPolled(o) ==
  \/ lastCheck <= db[o].updated_at
  \/ \E p \in Pollers :
       \/ polls[p].pc = "query" /\ polls[p].since <= db[o].updated_at
       \/ /\ polls[p].pc = "loop"
          /\ \E j \in DOMAIN polls[p].orders : j > polls[p].k /\ polls[p].orders[j].id = o
C30_PullMissesNoChange ==
  \A o \in Orders :
    (/\ mainPc = "polling"
     /\ db[o].payment_status = PrintOnPaymentStatus
     /\ db[o].updated_at >= pollStart
     /\ o \notin Ledger
     /\ NeverForwarded(o))
      => StillPolled(o)

\* C23: column formatting. For every text, width >= 0 and alignment, col
\* returns exactly width characters: the first min(len, width) characters of
\* the text and spaces, which come after the text (left), before it (right)
\* or floor(rest / 2) before it and the remainder after it (center); so the
\* header row and every item row (21 + 7 + 10 + 10) are 48 characters long.
Min(a, b) == IF a <= b THEN a ELSE b
SpacesBefore(align, rest) ==
  IF align = "right" THEN rest ELSE IF align = "center" THEN rest \div 2 ELSE 0
C23_ColumnFormatting ==
  /\ Len(headerRow) = 48
  /\ (applied # <<>> /\ given.fn = "itemLines") => Len(Result[1]) = 48
  /\ (applied # <<>> /\ given.fn = "col") =>
       LET str    == TextOf(given.text)
           kept   == Min(Len(str), given.width)
           before == SpacesBefore(given.align, given.width - kept)
       IN  /\ Len(Result) = given.width
           /\ \A i \in 1..given.width :
                Result[i] = IF i > before /\ i <= before + kept
                            THEN str[i - before] ELSE Space

\* A text centred with three spaces to distribute: one before, two after.
C23_Witness ==
  /\ applied # <<>>
  /\ given.fn = "col"
  /\ given.align = "center"
  /\ given.text # NoText
  /\ Len(given.text) = 1
  /\ given.width = 4
  /\ Result = <<Space, given.text[1], Space, Space>>

\* The line a printed line of bytes stands for has one byte per character
\* and the line feed at its end.
BytesOf(str) == [i \in 1..Len(str) |-> str[i] % 256]
GapOf(line) == Len(line) - 1 - Len(given.left) - Len(given.right)
LeftRightLayout ==
  LET k == GapOf(Result)
  IN  /\ k >= 1
      /\ k = Max(1, given.width - Len(given.left) - Len(given.right))
      /\ Result = BytesOf(given.left) \o repeat(Space, k) \o BytesOf(given.right) \o <<LF>>

\* C24 as stated: the line is exactly width characters whenever the combined
\* length of left and right does not exceed width.
C24_TwoColumnLayout_Stated ==
  (applied # <<>> /\ given.fn = "leftRight") =>
    /\ LeftRightLayout
    /\ Len(given.left) + Len(given.right) <= given.width => Len(Result) - 1 = given.width
    /\ Len(given.left) + Len(given.right) > given.width => GapOf(Result) = 1

\* C24, amended: leftRight prints left, k spaces and right with
\* k = max(1, width - len(left) - len(right)): at least one space separates
\* them; the line is exactly width characters whenever the combined length is
\* below width; when the combined length equals or exceeds width the gap is
\* exactly one space, the line being one character longer than the combined
\* length, and no error is raised.
C24_TwoColumnLayout ==
  (applied # <<>> /\ given.fn = "leftRight") =>
    /\ LeftRightLayout
    /\ Len(given.left) + Len(given.right) < given.width => Len(Result) - 1 = given.width
    /\ Len(given.left) + Len(given.right) >= given.width
         => /\ GapOf(Result) = 1
            /\ Len(Result) - 1 = Len(given.left) + Len(given.right) + 1

\* Two texts that fill the width exactly have been laid out.
C24_Witness ==
  /\ applied # <<>>
  /\ given.fn = "leftRight"
  /\ given.left # <<>>
  /\ given.right # <<>>
  /\ Len(given.left) + Len(given.right) = given.width
  /\ Len(Result) - 1 = given.width + 1

\* C25: text encoding is one byte per character and never fails. For every
\* string println appends len(str) bytes, the i-th being the character code
\* modulo 256 and so within 0..255, and then one line feed byte 0x0A.
C25_TextEncoding ==
  (applied # <<>> /\ given.fn = "println") =>
    /\ Len(Result) = Len(given.str) + 1
    /\ \A i \in 1..Len(given.str) :
         /\ Result[i] \in 0..255
         /\ (given.str[i] - Result[i]) % 256 = 0
    /\ Result[Len(Result)] = 10

\* A string with a character code above 255 has been printed.
C25_Witness ==
  /\ applied # <<>>
  /\ given.fn = "println"
  /\ \E i \in 1..Len(given.str) : given.str[i] > 255 /\ Result[i] = given.str[i] % 256

\* C29: item-name overflow loses no character. The name column of the item
\* row holds the first 21 characters of the name (padded with spaces); a
\* continuation line follows iff the name is longer than 21 characters, and
\* then the name column followed by the continuation line's text after its
\* two-space indent is the full name; a missing name prints as 'Item' with no
\* continuation line.
C29_NameOverflow ==
  (applied # <<>> /\ given.fn = "itemLines") =>
    LET name    == given.item.item_name
        lines   == Result
        nameCol == SubSeq(lines[1], 1, 21)
    IN  IF name = NoText
        THEN /\ Len(lines) = 1
             /\ nameCol = <<73, 116, 101, 109>> \o repeat(Space, 17)
        ELSE /\ Len(lines) = (IF Len(name) > 21 THEN 2 ELSE 1)
             /\ Len(name) \in 1..21 => nameCol = name \o repeat(Space, 21 - Len(name))
             /\ Len(name) > 21 =>
                  /\ SubSeq(lines[2], 1, 2) = <<Space, Space>>
                  /\ nameCol \o SubSeq(lines[2], 3, Len(lines[2])) = name

\* The lines of an item whose name has two characters more than the name
\* column holds.
C29_Witness ==
  /\ applied # <<>>
  /\ given.fn = "itemLines"
  /\ given.item.item_name # NoText
  /\ Len(given.item.item_name) = 23
  /\ Len(Result) = 2
  /\ Len(Result[2]) = 4

\* ------------------------------------------------ claims on the slip bytes
\* The slips built so far that have a document.
Built == {i \in 1..Len(applied) : ~applied[i].skipped}
Ends(bytes, tail) ==
  Len(bytes) >= Len(tail) /\ SubSeq(bytes, Len(bytes) - Len(tail) + 1, Len(bytes)) = tail

C27_DirectiveOrder ==
  \A i \in Built :
    LET doc    == applied[i].doc
        bytes  == applied[i].bytes
        cuts   == {k \in 1..Len(doc) : doc[k].op = "cutPartial"}
        pulses == {k \in 1..Len(doc) : doc[k].op = "cashDrawer"}
    IN  /\ doc[1].op = "init"
        /\ SubSeq(bytes, 1, 2) = <<27, 64>>
        /\ Cardinality(cuts) = 1
        /\ \A k \in 1..Len(doc) : \A c \in cuts :
             doc[k].op \in {"println", "feed"} => k < c
        /\ (pulses # {}) <=> given.openDrawer
        /\ given.openDrawer => pulses = {Len(doc)} /\ cuts = {Len(doc) - 1}
        /\ ~given.openDrawer => cuts = {Len(doc)}
        /\ Ends(bytes, <<29, 86, 65, 0>> \o (IF given.openDrawer
                                             THEN <<27, 112, 0, 25, 250>> ELSE <<>>))

\* A slip with the drawer pulse has been built.
C27_Witness ==
  \E i \in Built :
    /\ given.openDrawer
    /\ applied[i].doc[Len(applied[i].doc)].op = "cashDrawer"

\* =====================================================================
\* Pull mode alone: main() has fallen back to polling at time 0, the first
\* poll() has issued its query, and setInterval(poll, 3000) is set once that
\* poll has ended. A tick of the timer calls poll() whatever the earlier
\* calls are doing, so up to MaxOverlap executions of poll() are pending.
InitPull ==
  /\ now = 0
  /\ db = [o \in Orders |-> [payment_status |-> "absent", updated_at |-> 0]]
  /\ autoPrintEnabled = TRUE
  /\ printedOrders = <<>>
  /\ hs = [h \in Handlers |-> IdleHandler]
  /\ polls = [p \in 1..MaxOverlap |->
                IF p = 1 THEN [pc |-> "query", since |-> 0, orders |-> <<>>,
                               k |-> 0, waiting |-> 0]
                ELSE IdlePoll]
  /\ lastCheck = 0
  /\ intervalOn = FALSE
  /\ mainPc = "polling"
  /\ joined = FALSE
  /\ pollStart = 0
  /\ firstSignal = "failed"
  /\ calls = 0
  /\ called = 0
  /\ succeeded = {}
  /\ failed = {}
  /\ store = [o \in Orders |-> [order |-> OrderRow(o), items |-> OrderItems(o)]]
  /\ env = DefaultEnv
  /\ tracing = FALSE
  /\ slips = [h \in Handlers |-> <<>>]
  /\ history = <<>>
  /\ resolved = <<>>
  /\ given = <<>>
  /\ applied = <<>>

NextPull ==
  \/ FetchStep
  \/ SendStep
  \/ DelayStep
  \/ InsertStep
  \/ UpdateStep
  \/ Tick
  \/ PollTick
  \/ QueryStep

SpecPull == InitPull /\ [][NextPull]_vars

\* The executions of poll() that are pending.
PendingPolls == {p \in Pollers : polls[p].pc # "idle"}

\* C31: poll cycles never overlap: at most one execution of poll() is
\* pending at any time, so no two polls await a handlePaidOrder of the same
\* order and lastCheck is written by one poll at a time.
C31_PollsNeverOverlap ==
  /\ Cardinality(PendingPolls) <= 1
  /\ \A p, q \in PendingPolls :
       /\ p # q
       /\ polls[p].pc = "loop"
       /\ polls[q].pc = "loop"
       => hs[polls[p].waiting].id # hs[polls[q].waiting].id

\* C32: when the query of a poll fails, that poll hands no record to
\* handlePaidOrder, leaves the ledger and lastCheck as they are and ends; the
\* timer stays set, and the next poll queries from the unchanged lastCheck.
C32_QueryFailure ==
  /\ [][\A p \in Pollers :
          PollQueryDone(p, FALSE) =>
            /\ hs' = hs
            /\ calls' = calls
            /\ printedOrders' = printedOrders
            /\ lastCheck' = lastCheck
            /\ polls' = [polls EXCEPT ![p] = IdlePoll]
            /\ intervalOn']_vars
  /\ [][intervalOn => intervalOn']_vars
  /\ [][\A p \in Pollers :
          polls[p].pc = "idle" /\ polls'[p].pc = "query"
            => polls'[p].since = lastCheck]_vars

\* After a failed query: no record was handed on although a paid order lies
\* in the window, and a later poll queries the same window again.
C32_Witness ==
  /\ intervalOn
  /\ calls = 0
  /\ printedOrders = <<>>
  /\ lastCheck = pollStart
  /\ now > lastCheck
  /\ \E p \in Pollers : polls[p].pc = "query" /\ polls[p].since = lastCheck
  /\ \E o \in Orders : /\ db[o].payment_status = PrintOnPaymentStatus
                       /\ db[o].updated_at >= lastCheck
                       /\ db[o].updated_at < now

\* =====================================================================
\* Push mode with events on order 1 that may repeat, the order having no
\* order_items rows when it is created; the rows may be written later.
\* AUTO_PRINT_ENABLED is 'true' or not.
InitLate ==
  /\ now = 0
  /\ db = [o \in Orders |-> [payment_status |-> "absent", updated_at |-> 0]]
  /\ autoPrintEnabled \in BOOLEAN
  /\ printedOrders = <<>>
  /\ hs = [h \in Handlers |-> IdleHandler]
  /\ polls = [p \in 1..MaxPolls |-> IdlePoll]
  /\ lastCheck = Null
  /\ intervalOn = FALSE
  /\ mainPc = "realtime"
  /\ joined = TRUE
  /\ pollStart = Null
  /\ firstSignal = "ready"
  /\ calls = 0
  /\ called = 0
  /\ succeeded = {}
  /\ failed = {}
  /\ store = [o \in Orders |->
                [order |-> OrderRow(o), items |-> IF o = 1 THEN <<>> ELSE OrderItems(o)]]
  /\ env = DefaultEnv
  /\ tracing = TRUE
  /\ slips = [h \in Handlers |-> <<>>]
  /\ history = <<>>
  /\ resolved = <<>>
  /\ given = <<>>
  /\ applied = <<>>

\* The order_items rows of order 1 are written; a fetch that runs after
\* this step reads them.
AddItems ==
  /\ store[1].items = <<>>
  /\ store' = [store EXCEPT ![1].items = OrderItems(1)]
  /\ UNCHANGED <<engineVars, env, tracing, resolved, given, applied, traceVars>>

NextLate ==
  \/ FetchStep
  \/ SendStep
  \/ DelayStep
  \/ InsertFirst
  \/ UpdateAgain
  \/ AddItems

SpecLate == InitLate /\ [][NextLate]_vars

\* The finished executions whose printOrder had no kitchen to print for.
PrintedNothing == {n \in 1..Len(history) : history[n].printed /\ history[n].kitchens = <<>>}

\* C33: an order whose fetched item list is empty is marked dispatched
\* although no slip was sent: printOrder returns success without an attempt,
\* the identifier is in the ledger from then on, and no execution of
\* handlePaidOrder gets past the ledger test for an identifier in the ledger,
\* whether the order has items by then or not.
C33_EmptyOrderMarked ==
  /\ [](\A n \in PrintedNothing :
          /\ history[n].success
          /\ history[n].slips = <<>>
          /\ history[n].id \in Range(printedOrders))
  /\ [][\A h \in Handlers :
          hs[h].pc = "idle" /\ hs'[h].pc = "fetch"
            => hs'[h].id \notin Range(printedOrders)]_vars
  /\ [][\A o \in Orders :
          /\ o \in Range(printedOrders)
          /\ calls' = calls + 1
          /\ called' = o
          => hs' = hs /\ printedOrders' = printedOrders /\ history' = history]_vars

\* Order 1 was dispatched without items and without a slip; its items exist
\* now, a second qualifying event has come and was skipped.
C33_Witness ==
  /\ PrintedNothing # {}
  /\ Len(history) = 1
  /\ history[1].id = 1
  /\ store[1].items # <<>>
  /\ calls = 2
  /\ \A h \in Handlers : hs[h].pc = "idle"

\* C34: with auto-print disabled handlePaidOrder fetches the order and
\* returns: printOrder is never called, no slip is built or sent, and the
\* ledger is empty in every state of the run.
C34_AutoPrintDisabled ==
  ~autoPrintEnabled =>
    /\ printedOrders = <<>>
    /\ succeeded = {} /\ failed = {}
    /\ \A h \in Handlers : hs[h].pc \in {"idle", "fetch"} /\ slips[h] = <<>>
    /\ \A n \in 1..Len(history) :
         ~history[n].printed /\ history[n].slips = <<>>

\* With auto-print disabled two executions have fetched order 1 and
\* returned; the order has items by now.
C34_Witness ==
  /\ ~autoPrintEnabled
  /\ Len(history) = 2
  /\ history[1].fetched /\ history[2].fetched
  /\ store[1].items # <<>>
  /\ \A h \in Handlers : hs[h].pc = "idle"

\* =====================================================================
\* The ledger is full and order 1 is its oldest entry: order 1 was paid and
\* dispatched, then Capacity - 1 other orders (identifiers above MaxOrders)
\* were. Push mode; slips and history are recorded.
InitAgain ==
  /\ now = 0
  /\ db = [o \in Orders |->
             IF o = 1 THEN [payment_status |-> PrintOnPaymentStatus, updated_at |-> 0]
             ELSE [payment_status |-> "absent", updated_at |-> 0]]
  /\ autoPrintEnabled = TRUE
  /\ printedOrders = <<1>> \o EarlierOrders(Capacity - 1)
  /\ succeeded = {1} \cup Range(EarlierOrders(Capacity - 1))
  /\ hs = [h \in Handlers |-> IdleHandler]
  /\ polls = [p \in 1..MaxPolls |-> IdlePoll]
  /\ lastCheck = Null
  /\ intervalOn = FALSE
  /\ mainPc = "realtime"
  /\ joined = TRUE
  /\ pollStart = Null
  /\ firstSignal = "ready"
  /\ calls = 0
  /\ called = 0
  /\ failed = {}
  /\ store = [o \in Orders |-> [order |-> OrderRow(o), items |-> OrderItems(o)]]
  /\ env = DefaultEnv
  /\ tracing = TRUE
  /\ slips = [h \in Handlers |-> <<>>]
  /\ history = <<>>
  /\ resolved = <<>>
  /\ given = <<>>
  /\ applied = <<>>

NextAgain ==
  \/ FetchStep
  \/ SendStep
  \/ DelayStep
  \/ InsertStep
  \/ UpdateStep

SpecAgain == InitAgain /\ [][NextAgain]_vars

\* C35: eviction re-enables printing. Once Capacity further orders have been
\* dispatched after an order, its identifier is out of the ledger; a
\* qualifying event for an identifier that is not in the ledger starts an
\* execution of handlePaidOrder, and the printOrder of that execution
\* attempts a slip for every kitchen of the order again.
C35_EvictionReenables ==
  /\ [][printedOrders[1] = 1 /\ printedOrders' # printedOrders
          => 1 \notin Range(printedOrders')]_vars
  /\ [][\A o \in Orders :
          /\ o \notin Range(printedOrders)
          /\ calls' = calls + 1
          /\ called' = o
          => \E h \in Handlers :
               /\ hs[h].pc = "idle"
               /\ hs'[h].pc = "fetch"
               /\ hs'[h].id = o]_vars
  /\ [](\A n \in Printed :
          /\ KitchensOf(history[n].slips) = getUniqueKitchens(store[history[n].id].items)
          /\ history[n].slips # <<>> =>
               (history[n].slips[1].slip.cashDrawer <=> DrawerFor(history[n].id))
          /\ history[n].success => history[n].id \in Range(printedOrders))

\* Order 1 was evicted by the dispatch of order 2; a later event for order 1
\* was dispatched again with all its slips, and order 1 is back in the
\* ledger as its newest entry.
C35_Witness ==
  /\ Len(history) = 2
  /\ history[1].id = 2 /\ history[1].success
  /\ history[2].id = 1 /\ history[2].success
  /\ Len(history[2].slips) = Len(getUniqueKitchens(store[1].items))
  /\ Len(history[2].slips) = 2
  /\ printedOrders[Capacity] = 1

\* =====================================================================
\* printKitchenSlip on orders whose customer name is any text whose
\* character codes have the low bytes of CMD.CASH_DRAWER (the codes
\* themselves, or those codes plus 256), or a plain name.
InjectedNames ==
  {[i \in 1..Len(Cmd("cashDrawer")) |-> Cmd("cashDrawer")[i] + 256 * high[i]] :
     high \in [1..Len(Cmd("cashDrawer")) -> {0, 1}]}
    \cup {<<65, 233>>}

InitInject ==
  /\ IdleService
  /\ env = DefaultEnv
  /\ \E name \in InjectedNames, method \in {"cash", "online"},
        items \in {li \in SlipItemLists : Len(li) = 1}, pulse \in BOOLEAN :
       given = [order |-> [id |-> 1, order_number |-> 101, created_at |-> 0,
                           order_type |-> "dine_in", table_number |-> 5,
                           customer_name |-> name, customer_phone |-> NoText,
                           payment_method |-> method],
                items |-> Named(items), kitchenNumber |-> items[1].kitchen_number,
                kitchenIndex |-> 1, totalKitchens |-> 1, openDrawer |-> pulse]

SpecInject == InitInject /\ [][NextSlip]_vars

\* bytes has the bytes of part at consecutive positions.
Contains(bytes, part) ==
  \E k \in 1..(Len(bytes) - Len(part) + 1) : SubSeq(bytes, k, k + Len(part) - 1) = part

\* C36: no command injection through text: whatever the texts of the order,
\* the bytes of a slip contain the drawer pulse 1B 70 00 19 FA only if
\* openDrawer is true for that slip.
C36_NoInjection ==
  \A i \in Built :
    Contains(applied[i].bytes, <<27, 112, 0, 25, 250>>) => given.openDrawer

RECURSIVE KitchenSubtotals(_)
KitchenSubtotals(attempts) ==
  IF attempts = <<>> THEN 0
  ELSE KitchenSubtotals(SubSeq(attempts, 1, Len(attempts) - 1))
         + attempts[Len(attempts)].slip.kitchenSubtotal

\* C38: partition subtotals add up. For every item list the kitchen
\* subtotals computed on the slips of a dispatch sum to the order subtotal of
\* the totals block, which every slip of the dispatch shows.
C38_SubtotalsAddUp ==
  \A n \in Printed :
    \A j \in 1..Len(history[n].slips) :
      /\ ~history[n].slips[j].slip.skipped
      /\ KitchenSubtotals(history[n].slips) = history[n].slips[j].slip.totals.allSubtotal

\* A dispatch of three items on two slips, one of them for the items
\* without a kitchen: the subtotals 270.00 and 45.00 sum to 315.00.
C38_Witness ==
  \E n \in Printed :
    /\ Len(store[history[n].id].items) = 3
    /\ Len(history[n].slips) = 2
    /\ history[n].slips[2].slip.kitchenNumber = Null
    /\ history[n].slips[1].slip.kitchenSubtotal = 28000
    /\ history[n].slips[2].slip.kitchenSubtotal = 4500
    /\ history[n].slips[1].slip.totals.allSubtotal = 32500

====
